---------------------------- MODULE Spec2Model ----------------------------
(***************************************************************************)
(* A model of docudb: a document layer over SQLite's JSON functions.       *)
(*                                                                         *)
(* Two specifications live in this module.                                 *)
(*   Spec       the document store: one collection (table), the Document   *)
(*              handles a caller holds, and every read/write operation of  *)
(*              db_collection / db_document / db_document_ref.             *)
(*   SpecQuery  the query-expression engine: binary_op predicates, logic   *)
(*              gates, the thread-local bind_counter and the binder.       *)
(*                                                                         *)
(* JSON text is modelled by the value it denotes: a record                 *)
(*   [k |-> kind, v |-> scalar rendering, o |-> members of an object]      *)
(* so two texts that differ only in spacing or member order are equal in   *)
(* the model.  A difference between two modelled values is therefore a     *)
(* difference between the texts.                                           *)
(***************************************************************************)
EXTENDS Integers, Sequences, FiniteSets, TLC

(***************************************************************************)
(* Bounds of the model.                                                    *)
(***************************************************************************)
MaxHandles == 2

MaxOps == 4

MaxLeaves == 2

MaxExprs == 3

MaxLimit == 2

MaxFinds == 2

(***************************************************************************)
(* JSON values.                                                            *)
(***************************************************************************)
NoMembers == <<>>

Scalar(kind, text) == [k |-> kind, v |-> text, o |-> NoMembers]

Obj(members) == [k |-> "object", v |-> "", o |-> members]

JNull == Scalar("null", "")

JInt(s) == Scalar("integer", s)

JText(s) == Scalar("text", s)

JArray(s) == Scalar("array", s)

\* What a path resolves to when it resolves to nothing.
NotFound == Scalar("not_found", "")

\* Text that is not JSON at all ("A malformed JSON string").
Malformed == Scalar("malformed", "")

\* The result of a JSON function applied to malformed text: the statement fails.
JsonError == Scalar("error", "")

\* std::string's default value, the body_data of a handle that never read its row.
EmptyText == Scalar("empty_text", "")

EmptyObj == Obj(NoMembers)

\* members with key kk bound to val (added or overwritten).
With(members, kk, val) ==
    [q \in (DOMAIN members) \cup {kk} |-> IF q = kk THEN val ELSE members[q]]

\* members without the keys in ks.
Without(members, ks) == [q \in (DOMAIN members) \ ks |-> members[q]]

(***************************************************************************)
(* SQLite's JSON functions, as the statements of docudb.cpp use them.      *)
(* A path is the sequence of its keys: $.a.b is <<"a","b">>, $ is <<>>.    *)
(***************************************************************************)
RECURSIVE JsonLookup(_, _)
JsonLookup(j, p) ==
    IF p = <<>> THEN j
    ELSE IF j.k = "object" /\ Head(p) \in DOMAIN j.o
         THEN JsonLookup(j.o[Head(p)], Tail(p))
         ELSE NotFound

\* The object chain json_set/json_insert append for the missing tail of a path.
RECURSIVE JsonFresh(_, _)
JsonFresh(p, val) ==
    IF p = <<>> THEN val
    ELSE Obj(With(NoMembers, Head(p), JsonFresh(Tail(p), val)))

\* json_set / json_insert / json_replace (func) of one path in valid JSON j.
RECURSIVE JsonEdit(_, _, _, _)
JsonEdit(func, j, p, val) ==
    IF p = <<>>
    THEN IF func = "json_insert" THEN j ELSE val
    ELSE IF j.k # "object" THEN j
    ELSE IF Head(p) \in DOMAIN j.o
         THEN Obj(With(j.o, Head(p), JsonEdit(func, j.o[Head(p)], Tail(p), val)))
    ELSE IF func = "json_replace" THEN j
    ELSE Obj(With(j.o, Head(p), JsonFresh(Tail(p), val)))

\* func(text, path, value) with the text checked first.
JsonFunc(func, j, p, val) ==
    IF j.k \in {"malformed", "error", "empty_text"} THEN JsonError
    ELSE JsonEdit(func, j, p, val)

\* json_patch(target, patch): RFC 7396 merge patch.
RECURSIVE JsonMergePatch(_, _)
JsonMergePatch(target, patch) ==
    IF patch.k # "object" THEN patch
    ELSE LET base    == IF target.k = "object" THEN target.o ELSE NoMembers
             removed == {q \in DOMAIN patch.o : patch.o[q].k = "null"}
             written == (DOMAIN patch.o) \ removed
             sub(q)  == IF q \in DOMAIN base THEN base[q] ELSE NotFound
         IN  Obj([q \in ((DOMAIN base) \cup written) \ removed |->
                    IF q \in written
                    THEN JsonMergePatch(sub(q), patch.o[q])
                    ELSE base[q]])

JsonPatch(target, patch) ==
    IF \/ target.k \in {"malformed", "error", "empty_text"}
       \/ patch.k \in {"malformed", "error", "empty_text"}
    THEN JsonError
    ELSE JsonMergePatch(target, patch)

\* json_type(body, path): NULL (here "") when the path resolves to nothing.
JsonType(j, p) ==
    LET n == JsonLookup(j, p) IN IF n.k = "not_found" THEN "" ELSE n.k


(***************************************************************************)
(* Inputs the operations are called with.                                  *)
(***************************************************************************)
Ids == {"x", "y"}

Paths == {<<"a">>, <<"a", "b">>, <<"docid">>}

\* The values a caller binds: an integer, nullptr, a string.
Values == {JInt("1"), JNull, JText("y")}

ObjA(val) == Obj(With(NoMembers, "a", val))

ObjB(val) == Obj(With(NoMembers, "b", val))

ObjC(val) == Obj(With(NoMembers, "c", val))

\* Ids holding a double quote, which std::format copies into the JSON text
\* as it is:  x"  and  x","a":"1
QuoteId == "x\""

InjectId == "x\",\"a\":\"1"

CreateIds == Ids \cup {QuoteId, InjectId}

\* std::format(R"({{"docid":"{}"}})", doc_id), the body db_collection::create
\* formats, as the JSON the text is: the id is copied unescaped, so
\* {"docid":"x""} is not JSON and {"docid":"x","a":"1"} has two members.
DocBody(id) ==
    IF id = QuoteId THEN Malformed
    ELSE IF id = InjectId
         THEN Obj(With(With(NoMembers, "docid", JText("x")), "a", JText("1")))
         ELSE Obj(With(NoMembers, "docid", JText(id)))

\* The JSON fragments patch is called with.
Fragments ==
    { ObjA(ObjB(JInt("1"))),                 \* {"a":{"b":1}}
      ObjA(ObjC(JArray("[1,2]"))),           \* {"a":{"c":[1,2]}}
      ObjA(ObjB(JNull)),                     \* {"a":{"b":null}}
      ObjA(JNull),                           \* {"a":null}
      ObjA(JText("y")),                      \* {"a":"y"}
      Obj(With(NoMembers, "docid", JText("y"))), \* {"docid":"y"}
      JInt("1"),                             \* 1
      Malformed }

\* The texts body(text) is called with.
Texts ==
    { ObjA(JInt("1")),                       \* {"a":1}
      Obj(With(With(NoMembers, "docid", JText("y")), "a", JNull)),
                                             \* {"docid":"y","a":null}
      DocBody("x"),                          \* {"docid":"x"}
      JInt("1"),                             \* 1
      Malformed }

(***************************************************************************)
(* The state.                                                              *)
(*   table   the rows of the collection's table: the set of stored bodies  *)
(*           (the docid column is generated from the body, NOT NULL and    *)
(*           UNIQUE, so a row is identified by its body).                  *)
(*   docs    the db_document handles the caller holds, in creation order:  *)
(*           [doc_id, body_data, invalid_body].                            *)
(*   erased  the ids whose row a DELETE removed and no INSERT brought back.*)
(*   last    the last call: what was called, with what, and what came of   *)
(*           it (ok = it returned, ~ok = it threw).                        *)
(*   nops    the number of calls made so far.                              *)
(* The state of the query-expression engine:                               *)
(*   bind_counter  the thread_local counter, one per thread.               *)
(*   pool          the expression objects the caller holds, in the order   *)
(*                 they were constructed.                                  *)
(*   qlast         the last expression call and what it produced.          *)
(***************************************************************************)
VARIABLES table, docs, erased, last, nops, bind_counter, pool, qlast,
          columns, indexes, in_transaction

storeVars == <<table, docs, erased, last, nops>>

queryVars == <<bind_counter, pool, qlast>>

\* The schema of the collection's table beyond body and docid:
\*   columns         the projected columns index() added: name -> the path
\*                   each is GENERATED ALWAYS AS (json_extract(body, path)).
\*   indexes         the indexes index() created: [name, cols, unique].
\*   in_transaction  whether a BEGIN TRANSACTION is open on the connection.
schemaVars == <<columns, indexes, in_transaction>>

SqlNull == "<NULL>"

\* The generated column: docid TEXT AS (json_extract(body, '$.docid')).
Docid(body) ==
    LET n == JsonLookup(body, <<"docid">>)
    IN  IF n.k \in {"not_found", "null"} THEN SqlNull
        ELSE IF n.k \in {"object", "array"} THEN "<json>" \o n.v
        ELSE n.v

\* ... WHERE docid = id
RowsWhere(tbl, id) == {b \in tbl : Docid(b) = id}

\* The row ... WHERE docid = id selects, when there is one.
RowOf(tbl, id) == CHOOSE b \in tbl : Docid(b) = id

\* json_extract(body, path) as an SQL value: JSON null and a missing path
\* both give SQL NULL.
JsonExtract(j, p) ==
    LET n == JsonLookup(j, p) IN IF n.k \in {"not_found", "null"} THEN NotFound ELSE n

IsSqlNull(val) == val.k = "not_found"

\* The value of the projected column col in the row with this body.
ColumnValue(cols, body, col) == JsonExtract(body, cols[col])

\* CREATE UNIQUE INDEX ... (c1, .., cn): no two rows agree on every indexed
\* column; a row with NULL in one of them conflicts with no row.
UniqueHolds(tbl, cols, idx) ==
    \A b1, b2 \in tbl :
        b1 # b2 => \E q \in DOMAIN idx.cols :
                      \/ IsSqlNull(ColumnValue(cols, b1, idx.cols[q]))
                      \/ IsSqlNull(ColumnValue(cols, b2, idx.cols[q]))
                      \/ ColumnValue(cols, b1, idx.cols[q])
                            # ColumnValue(cols, b2, idx.cols[q])

\* Mutant: unique indexes that are not consulted when a row is written.
IndexesHold_unenforced(tbl, cols, idxs) == TRUE

IndexesHold(tbl, cols, idxs) ==
    \A idx \in idxs : idx.unique => UniqueHolds(tbl, cols, idx)

\* docid ... NOT NULL UNIQUE, and every unique index of the table.
ConstraintsHold(tbl) ==
    /\ \A b \in tbl : Docid(b) # SqlNull
    /\ \A b1, b2 \in tbl : Docid(b1) = Docid(b2) => b1 = b2
    /\ IndexesHold(tbl, columns, indexes)

SQLITE_DONE == "SQLITE_DONE"

SQLITE_ROW == "SQLITE_ROW"

SQLITE_ERROR == "SQLITE_ERROR"

SQLITE_CONSTRAINT == "SQLITE_CONSTRAINT"

\* The outcome of one statement: its result code and the table it leaves.
Stepped(code, tbl) == [rc |-> code, tbl |-> tbl]

\* UPDATE [t] SET body = <newBody> WHERE docid = id, where newBody is the
\* value the SET expression gives for the selected row.  No row selected:
\* nothing is evaluated and the statement is done.
UpdateRow(tbl, id, newBody) ==
    IF RowsWhere(tbl, id) = {} THEN Stepped(SQLITE_DONE, tbl)
    ELSE IF newBody.k = "error" THEN Stepped(SQLITE_ERROR, tbl)
    ELSE LET others == tbl \ RowsWhere(tbl, id)
             new    == others \cup {newBody}
         IN  IF ConstraintsHold(new) /\ newBody \notin others
             THEN Stepped(SQLITE_DONE, new)
             ELSE Stepped(SQLITE_CONSTRAINT, tbl)

\* INSERT INTO [t] (body) VALUES (body)
InsertRow(tbl, body) ==
    IF body.k \in {"malformed", "error", "empty_text"}
    THEN Stepped(SQLITE_ERROR, tbl)
    ELSE IF ConstraintsHold(tbl \cup {body}) /\ body \notin tbl
         THEN Stepped(SQLITE_DONE, tbl \cup {body})
         ELSE Stepped(SQLITE_CONSTRAINT, tbl)

\* Mutant: the DELETE without its WHERE clause.
DeleteRow_every_row(tbl, id) == Stepped(SQLITE_DONE, {})

\* DELETE FROM [t] WHERE docid = id
DeleteRow(tbl, id) == Stepped(SQLITE_DONE, tbl \ RowsWhere(tbl, id))


(***************************************************************************)
(* The functions of docudb.cpp behind the document operations.  Each gives *)
(* the statement's outcome; the caller throws unless the code is the one   *)
(* it expects.                                                             *)
(***************************************************************************)
\* The body column of the row WHERE docid = id selects; with no such row the
\* SET expression is never evaluated.
BodyOf(tbl, id) ==
    IF RowsWhere(tbl, id) = {} THEN JsonError ELSE RowOf(tbl, id)

\* UPDATE [t] SET body={func}(body, ?1, ?2) WHERE docid=?3
db_document_json_ins_set_repl_impl(tbl, func, query, doc_id, value) ==
    UpdateRow(tbl, doc_id, JsonFunc(func, BodyOf(tbl, doc_id), query, value))

db_document_replace_impl(tbl, query, doc_id, value) ==
    db_document_json_ins_set_repl_impl(tbl, "json_replace", query, doc_id, value)

db_document_set_impl(tbl, query, doc_id, value) ==
    db_document_json_ins_set_repl_impl(tbl, "json_set", query, doc_id, value)

\* Mutant: insert issued as json_set (the wrong function name passed down).
db_document_insert_impl_as_set(tbl, query, doc_id, value) ==
    db_document_json_ins_set_repl_impl(tbl, "json_set", query, doc_id, value)

db_document_insert_impl(tbl, query, doc_id, value) ==
    db_document_json_ins_set_repl_impl(tbl, "json_insert", query, doc_id, value)

\* Mutant: the fragment's top-level members written one by one with json_set
\* (no recursion into objects, a null member stored as null).
db_document_json_patch_impl_shallow(tbl, doc_id, value) ==
    LET body == BodyOf(tbl, doc_id)
    IN  UpdateRow(tbl, doc_id,
            IF value.k # "object" \/ body.k # "object" THEN JsonPatch(body, value)
            ELSE Obj([q \in (DOMAIN body.o) \cup (DOMAIN value.o) |->
                        IF q \in DOMAIN value.o THEN value.o[q] ELSE body.o[q]]))

\* UPDATE [t] SET body=json_patch(body, ?1) WHERE docid=?2
db_document_json_patch_impl(tbl, doc_id, value) ==
    UpdateRow(tbl, doc_id, JsonPatch(BodyOf(tbl, doc_id), value))

\* Mutant: the id written with json_insert, which keeps a docid the text has.
db_document_body_update_insert(tbl, doc_id, text) ==
    UpdateRow(tbl, doc_id, JsonFunc("json_insert", text, <<"docid">>, JText(doc_id)))

\* UPDATE [t] SET body=json_set(?1, '$.docid', ?2) WHERE docid=?2
db_document_body_update(tbl, doc_id, text) ==
    UpdateRow(tbl, doc_id, JsonFunc("json_set", text, <<"docid">>, JText(doc_id)))

\* SELECT body FROM [t] WHERE docid=?: the row's body, or the throw
\* "Document not found" (NotFound) when the step gives no row.
read_doc_body(tbl, doc_id) ==
    IF RowsWhere(tbl, doc_id) = {} THEN NotFound ELSE RowOf(tbl, doc_id)

\* db_document constructed with a body (create) and without one (doc(id)).
db_document_with_body(doc_id, body) ==
    [doc_id |-> doc_id, body_data |-> body, invalid_body |-> FALSE]

db_document_without_body(doc_id) ==
    [doc_id |-> doc_id, body_data |-> EmptyText, invalid_body |-> TRUE]

(***************************************************************************)
(* The record of a call.                                                   *)
(***************************************************************************)
NoOut == [kind |-> "none", msg |-> "", val |-> NotFound]

Returned(val) == [kind |-> "value", msg |-> "", val |-> val]

Threw(msg) == [kind |-> "throw", msg |-> msg, val |-> NotFound]

\* What a call on (id, p) finds: no row with that id, a row whose body has
\* nothing at p, a row with an explicit JSON null at p, or a row with a value.
Situation(tbl, id, p) ==
    IF RowsWhere(tbl, id) = {} THEN "no_document"
    ELSE LET n == JsonLookup(RowOf(tbl, id), p)
         IN  IF n.k = "not_found" THEN "no_path"
             ELSE IF n.k = "null" THEN "null"
             ELSE "value"

\* op called through handle h (0: through the collection or a DocumentRef)
\* on id, with path p and argument arg, on the table tbl.
Call(op, h, id, p, arg, tbl, out) ==
    [op |-> op, h |-> h, id |-> id, p |-> p, arg |-> arg,
     ok |-> out.kind # "throw",
     found |-> RowsWhere(tbl, id) # {},
     was_erased |-> id \in erased,
     sit |-> Situation(tbl, id, p),
     pre |-> read_doc_body(tbl, id),
     out |-> out]

NoCall ==
    [op |-> "none", h |-> 0, id |-> "", p |-> <<>>, arg |-> NotFound,
     ok |-> TRUE, found |-> FALSE, was_erased |-> FALSE, sit |-> "none",
     pre |-> NotFound, out |-> NoOut]

Handles == 1 .. Len(docs)

\* The ids that stay erased once the table is tbl.
StillErased(ids, tbl) == {id \in ids : RowsWhere(tbl, id) = {}}

NoColumns == <<>>

SchemaInit ==
    /\ columns = NoColumns
    /\ indexes = {}
    /\ in_transaction = FALSE

StoreInit ==
    /\ table = {}
    /\ docs = <<>>
    /\ erased = {}
    /\ last = NoCall
    /\ nops = 0

\* A write through handle h whose statement ended as res: the handle's cache
\* is marked invalid when the call returns, and left alone when it throws.
WriteThrough(op, h, p, arg, res, failure) ==
    /\ table' = res.tbl
    /\ erased' = StillErased(erased, res.tbl)
    /\ docs' = IF res.rc = SQLITE_DONE
               THEN [docs EXCEPT ![h].invalid_body = TRUE]
               ELSE docs
    /\ last' = Call(op, h, docs[h].doc_id, p, arg, table,
                    IF res.rc = SQLITE_DONE THEN NoOut ELSE Threw(failure))
    /\ nops' = nops + 1
    /\ UNCHANGED <<queryVars, schemaVars>>


(***************************************************************************)
(* The operations of the document store.                                   *)
(***************************************************************************)
\* db_collection::create(doc_id): INSERT the body {"docid":"<id>"}; the
\* handle returned caches that body as valid.
db_collection_create(doc_id) ==
    /\ nops < MaxOps
    /\ Len(docs) < MaxHandles
    /\ LET new_doc_body == DocBody(doc_id)
           res == InsertRow(table, new_doc_body)
           ok  == res.rc = SQLITE_DONE
       IN  /\ table' = res.tbl
           /\ erased' = StillErased(erased, res.tbl)
           /\ docs' = IF ok
                      THEN Append(docs, db_document_with_body(doc_id, new_doc_body))
                      ELSE docs
           /\ last' = Call("create", IF ok THEN Len(docs) + 1 ELSE 0, doc_id,
                           <<>>, new_doc_body, table,
                           IF ok THEN NoOut
                           ELSE Threw("Failed to insert document"))
    /\ nops' = nops + 1
    /\ UNCHANGED <<queryVars, schemaVars>>

\* db_collection::doc(doc_id) and db_document_ref::doc(): a handle on doc_id
\* with no body read; no statement is issued.
db_collection_doc(doc_id) ==
    /\ nops < MaxOps
    /\ Len(docs) < MaxHandles
    /\ docs' = Append(docs, db_document_without_body(doc_id))
    /\ last' = Call("doc", Len(docs) + 1, doc_id, <<>>, NotFound, table, NoOut)
    /\ nops' = nops + 1
    /\ UNCHANGED <<table, erased>>
    /\ UNCHANGED <<queryVars, schemaVars>>

\* db_document::set(query, value)
db_document_set(h, query, value) ==
    /\ nops < MaxOps
    /\ WriteThrough("set", h, query, value,
                    db_document_set_impl(table, query, docs[h].doc_id, value),
                    "Failed to update document")

\* db_document::insert(query, value)
db_document_insert(h, query, value) ==
    /\ nops < MaxOps
    /\ WriteThrough("insert", h, query, value,
                    db_document_insert_impl(table, query, docs[h].doc_id, value),
                    "Failed to update document")

\* db_document::replace(query, value)
db_document_replace(h, query, value) ==
    /\ nops < MaxOps
    /\ WriteThrough("replace", h, query, value,
                    db_document_replace_impl(table, query, docs[h].doc_id, value),
                    "Failed to update document")

\* db_document::patch(json)
db_document_patch(h, json) ==
    /\ nops < MaxOps
    /\ WriteThrough("patch", h, <<>>, json,
                    db_document_json_patch_impl(table, docs[h].doc_id, json),
                    "Failed to update document")

\* db_document::body(std::string_view body): on success the text passed in
\* becomes the cached body and the cache is marked valid.
db_document_body_write(h, body) ==
    /\ nops < MaxOps
    /\ LET res == db_document_body_update(table, docs[h].doc_id, body)
           ok  == res.rc = SQLITE_DONE
       IN  /\ table' = res.tbl
           /\ erased' = StillErased(erased, res.tbl)
           /\ docs' = IF ok
                      THEN [docs EXCEPT ![h].body_data = body,
                                        ![h].invalid_body = FALSE]
                      ELSE docs
           /\ last' = Call("body_write", h, docs[h].doc_id, <<>>, body, table,
                           IF ok THEN NoOut
                           ELSE Threw("Failed to update document"))
    /\ nops' = nops + 1
    /\ UNCHANGED <<queryVars, schemaVars>>

\* db_document::body() const: re-reads the row when the cache is invalid
\* (the flag itself is not reset by the read), then returns the cache.
db_document_body(h) ==
    /\ nops < MaxOps
    /\ LET d == docs[h]
           fetched == read_doc_body(table, d.doc_id)
       IN  IF d.invalid_body
           THEN IF fetched.k = "not_found"
                THEN /\ docs' = docs
                     /\ last' = Call("body", h, d.doc_id, <<>>, NotFound, table,
                                     Threw("Document not found"))
                ELSE /\ docs' = [docs EXCEPT ![h].body_data = fetched]
                     /\ last' = Call("body", h, d.doc_id, <<>>, NotFound, table,
                                     Returned(fetched))
           ELSE /\ docs' = docs
                /\ last' = Call("body", h, d.doc_id, <<>>, NotFound, table,
                                Returned(d.body_data))
    /\ nops' = nops + 1
    /\ UNCHANGED <<table, erased>>
    /\ UNCHANGED <<queryVars, schemaVars>>

\* db_collection::remove(doc_id): throws only when the step does not end
\* with SQLITE_DONE.
Remove(op, h, doc_id) ==
    /\ nops < MaxOps
    /\ LET res == DeleteRow(table, doc_id)
       IN  /\ table' = res.tbl
           /\ erased' = StillErased(
                  erased \cup (IF RowsWhere(table, doc_id) # {} THEN {doc_id} ELSE {}),
                  res.tbl)
           /\ last' = Call(op, h, doc_id, <<>>, NotFound, table,
                           IF res.rc = SQLITE_DONE THEN NoOut
                           ELSE Threw("Failed to delete document"))
    /\ nops' = nops + 1
    /\ UNCHANGED docs
    /\ UNCHANGED <<queryVars, schemaVars>>

db_collection_remove(doc_id) == Remove("remove", 0, doc_id)

\* db_document::erase()
db_document_erase(h) == Remove("erase", h, docs[h].doc_id)

\* db_document_ref::erase()
db_document_ref_erase(doc_id) == Remove("ref_erase", 0, doc_id)

(***************************************************************************)
(* Field-level reads.  Each issues its SELECT against the table, never     *)
(* the cached body.                                                        *)
(***************************************************************************)
\* statement::get<std::string>: sqlite3_column_text; a NULL column throws.
get_string_column(val) ==
    IF IsSqlNull(val) THEN Threw("Field is null")
    ELSE Returned([k |-> "std::string", v |-> val.v, o |-> val.o])

\* statement::get<std::int64_t>: sqlite3_column_int64; NULL and text that is
\* no number convert to 0.
get_int64_column(val) ==
    Returned(Scalar("std::int64_t", IF val.k = "integer" THEN val.v ELSE "0"))

\* statement::get<std::double_t>: sqlite3_column_double.
get_double_column(val) ==
    Returned(Scalar("std::double_t",
                    IF val.k = "integer" THEN val.v \o ".0"
                    ELSE IF val.k = "real" THEN val.v ELSE "0.0"))

get_column(type, val) ==
    IF type = "std::string" THEN get_string_column(val)
    ELSE IF type = "std::int64_t" THEN get_int64_column(val)
    ELSE get_double_column(val)

ColumnTypes == {"std::string", "std::int64_t", "std::double_t"}

\* SELECT json_extract(body, ?1) FROM [t] WHERE docid=?2
\*   AND json_type(body, ?1) IS NOT NULL; no row: throw.
get_value_impl(type, tbl, doc_id, query) ==
    IF RowsWhere(tbl, doc_id) = {} \/ JsonType(read_doc_body(tbl, doc_id), query) = ""
    THEN Threw("Document or field not found")
    ELSE get_column(type, JsonExtract(RowOf(tbl, doc_id), query))

get_string(tbl, doc_id, query) == get_value_impl("std::string", tbl, doc_id, query)

get_number(tbl, doc_id, query) == get_value_impl("std::int64_t", tbl, doc_id, query)

get_real(tbl, doc_id, query) == get_value_impl("std::double_t", tbl, doc_id, query)

\* SELECT json_type(body, ?1) FROM [t] WHERE docid = ?2, mapped to json_type.
get_type(tbl, doc_id, query) ==
    LET type == JsonType(read_doc_body(tbl, doc_id), query)
    IN  Returned(Scalar("json_type",
            IF RowsWhere(tbl, doc_id) = {} \/ type = "" THEN "not_found"
            ELSE IF type = "text" THEN "string"
            ELSE type))

\* The length of an array, which the model keeps as its text.
ArrayLength(text) == IF text = "[]" THEN "0" ELSE "2"

\* SELECT json_array_length(body, ?1) FROM [t] WHERE docid=?2
\*   AND json_type(body, ?1) = 'array'; no row: throw.
get_array_length(tbl, doc_id, query) ==
    IF RowsWhere(tbl, doc_id) = {} \/ JsonType(read_doc_body(tbl, doc_id), query) # "array"
    THEN Threw("Document or array not found")
    ELSE Returned(Scalar("std::size_t",
                         ArrayLength(JsonLookup(RowOf(tbl, doc_id), query).v)))

\* SELECT DISTINCT json_each.key FROM [t], json_each(body, ?1) WHERE docid=?2:
\* no row for a missing document or path, one row per member of an object,
\* and one row with a NULL key for a scalar, which get<std::string> rejects.
get_object_keys(tbl, doc_id, query) ==
    LET n == read_doc_body(tbl, doc_id)
        at == JsonLookup(n, query)
    IN  IF RowsWhere(tbl, doc_id) = {} \/ at.k = "not_found"
        THEN Returned([k |-> "keys", v |-> "", o |-> NoMembers])
        ELSE IF at.k = "object"
        THEN Returned([k |-> "keys", v |-> "", o |-> [q \in DOMAIN at.o |-> JNull]])
        ELSE IF at.k = "array"
        THEN Returned([k |-> "keys", v |-> at.v, o |-> NoMembers])
        ELSE Threw("Field is null")

\* db_document::get<T>({field}): get_value_stmt_impl's
\* SELECT json_extract(body, ?2) FROM [t] WHERE docid=?1; no row: throw;
\* then get_values_impl reads the column as T.
get_tuple(type, tbl, doc_id, field) ==
    IF RowsWhere(tbl, doc_id) = {} THEN Threw("Document not found")
    ELSE get_column(type, JsonExtract(RowOf(tbl, doc_id), field))

\* A read through handle h: only the record of the call changes.
ReadThrough(op, h, p, type, out) ==
    /\ nops < MaxOps
    /\ last' = Call(op, h, docs[h].doc_id, p, Scalar("type", type), table, out)
    /\ nops' = nops + 1
    /\ UNCHANGED <<table, docs, erased>>
    /\ UNCHANGED <<queryVars, schemaVars>>

db_document_get_string(h, query) ==
    ReadThrough("get_string", h, query, "", get_string(table, docs[h].doc_id, query))

db_document_get_number(h, query) ==
    ReadThrough("get_number", h, query, "", get_number(table, docs[h].doc_id, query))

db_document_get_real(h, query) ==
    ReadThrough("get_real", h, query, "", get_real(table, docs[h].doc_id, query))

db_document_get_type(h, query) ==
    ReadThrough("get_type", h, query, "", get_type(table, docs[h].doc_id, query))

db_document_get_array_length(h, query) ==
    ReadThrough("get_array_length", h, query, "",
                get_array_length(table, docs[h].doc_id, query))

db_document_get_object_keys(h, query) ==
    ReadThrough("get_object_keys", h, query, "",
                get_object_keys(table, docs[h].doc_id, query))

db_document_get(h, type, field) ==
    ReadThrough("get", h, field, type, get_tuple(type, table, docs[h].doc_id, field))

StoreNext ==
    \/ \E id \in Ids : db_collection_create(id)
    \/ \E id \in Ids : db_collection_doc(id)
    \/ \E h \in Handles, p \in Paths, val \in Values : db_document_set(h, p, val)
    \/ \E h \in Handles, p \in Paths, val \in Values : db_document_insert(h, p, val)
    \/ \E h \in Handles, p \in Paths, val \in Values : db_document_replace(h, p, val)
    \/ \E h \in Handles, json \in Fragments : db_document_patch(h, json)
    \/ \E h \in Handles, text \in Texts : db_document_body_write(h, text)
    \/ \E h \in Handles : db_document_body(h)
    \/ \E id \in Ids : db_collection_remove(id)
    \/ \E h \in Handles : db_document_erase(h)
    \/ \E id \in Ids : db_document_ref_erase(id)
    \/ \E h \in Handles, p \in Paths : db_document_get_string(h, p)
    \/ \E h \in Handles, p \in Paths : db_document_get_number(h, p)
    \/ \E h \in Handles, p \in Paths : db_document_get_real(h, p)
    \/ \E h \in Handles, p \in Paths : db_document_get_type(h, p)
    \/ \E h \in Handles, p \in Paths : db_document_get_array_length(h, p)
    \/ \E h \in Handles, p \in Paths : db_document_get_object_keys(h, p)
    \/ \E h \in Handles, type \in ColumnTypes, p \in Paths : db_document_get(h, type, p)

(***************************************************************************)
(* The query-expression engine.                                            *)
(*                                                                         *)
(* A std::string is the sequence of its characters, so that its size and   *)
(* its first character can be asked for.  A rendered query is the sequence *)
(* of the pieces std::format puts together: literal text, a string         *)
(* argument, or a placeholder ?k.                                          *)
(***************************************************************************)
MAX_VAR_NUM == 250000

INT_MAX == 2^30 + (2^30 - 1)

INT_MIN == -INT_MAX - 1

Threads == {1, 2}

\* The value of bind_counter on a thread when the first expression is built:
\* a fresh thread, a thread that has built MAX_VAR_NUM - 2 predicates, and
\* one that has built INT_MAX - 1.
CounterStarts == {0, MAX_VAR_NUM - 2, INT_MAX - 1}

Names == {<<"$", ".", "a">>, <<"c">>}

\* db_value arguments; "null" is a db_value holding nullptr.
DbValues == {"1", "null"}

EmptyString == <<>>

Lit(text) == [t |-> "lit", s |-> text, k |-> 0, v |-> EmptyString]

Str(chars) == [t |-> "str", s |-> "", k |-> 0, v |-> chars]

Ph(index) == [t |-> "ph", s |-> "?", k |-> index, v |-> EmptyString]

\* a % b of C++ (the quotient truncates toward zero), for b > 0.
CRem(a, b) == IF a >= 0 THEN a % b ELSE -((-(a + b)) % b)

\* ++bind_counter: the values the counter can hold afterwards.  Incrementing
\* INT_MAX is a signed overflow, undefined behaviour: a build either wraps
\* the counter to INT_MIN or traps (Traps) and the process is aborted.
PreIncrement(c) == IF c < INT_MAX THEN {c + 1} ELSE {INT_MIN}

Traps(c) == c = INT_MAX

EmptyBinder == <<>>

\* binder::add: unordered_map::emplace keeps an entry already under the key.
binder_add(bind_map, index, val) ==
    [q \in (DOMAIN bind_map) \cup {index} |->
        IF q \in DOMAIN bind_map THEN bind_map[q] ELSE val]

\* binder::merge(b): unordered_map::merge splices into this map every entry
\* of b whose key this map lacks; the others stay in b.
binder_merge(bind_map, b) ==
    [into |-> [q \in (DOMAIN bind_map) \cup (DOMAIN b) |->
                  IF q \in DOMAIN bind_map THEN bind_map[q] ELSE b[q]],
     from |-> [q \in (DOMAIN b) \cap (DOMAIN bind_map) |-> b[q]]]

\* An expression object.  ctor and arg record which constructor built it and
\* with which value, moved whether it has been moved from, and thread,
\* made_at and serial on which thread it was built, what bind_counter had
\* become, and the how-manieth object of the caller it is; the program
\* keeps none of these.
Expr(kind, ctor, arg, var, op, index, gate, binder, kids) ==
    [kind |-> kind, ctor |-> ctor, arg |-> arg, var_ |-> var, op_ |-> op,
     index_ |-> index, gate_ |-> gate, binder_ |-> binder, kids |-> kids,
     moved |-> FALSE, thread |-> 0, made_at |-> 0, serial |-> 0]

\* Mutant: the index taken modulo MAX_VAR_NUM - 1.
binary_op_short_cycle(ctor, json_query, op, value, counter) ==
    LET index == 1 + CRem(counter, MAX_VAR_NUM - 1)
    IN  Expr("binary_op", ctor, value, json_query, op, index, "",
             binder_add(EmptyBinder, index, value), <<>>)

\* binary_op(json_query, op, db_value&&), the counter having become counter.
binary_op(ctor, json_query, op, value, counter) ==
    LET index == 1 + CRem(counter, MAX_VAR_NUM)
    IN  Expr("binary_op", ctor, value, json_query, op, index, "",
             binder_add(EmptyBinder, index, value), <<>>)

\* binary_op(json_query, op, nullptr_t)
binary_op_null(ctor, json_query, op) ==
    Expr("binary_op", ctor, "nullptr", json_query, op, -1, "", EmptyBinder, <<>>)

\* The operator each comparison struct passes to binary_op.
Operators == [eq |-> "=", neq |-> "!=", gt |-> ">", lt |-> "<",
              gte |-> ">=", lte |-> "<=", like |-> "LIKE", regexp |-> "REGEXP"]

ValueCtors == {"eq", "neq", "gt"}

\* eq(name, nullptr) and neq(name, nullptr)
NullOperators == [eq |-> "IS", neq |-> "IS NOT"]

\* The object a move constructor leaves behind: the unordered_map is empty,
\* the ints are copied, and each std::string is in a valid but unspecified
\* state (kept, or emptied).
RECURSIVE MovedFrom(_, _)
MovedFrom(e, strings_kept) ==
    [e EXCEPT !.var_    = IF strings_kept THEN @ ELSE EmptyString,
              !.op_     = IF strings_kept THEN @ ELSE "",
              !.gate_   = IF strings_kept THEN @ ELSE "",
              !.binder_ = EmptyBinder,
              !.kids    = [q \in DOMAIN @ |-> MovedFrom(@[q], strings_kept)],
              !.moved   = TRUE]

\* logic_gate(A&& a, B&& b, gate): a_ and b_ are move-constructed from the
\* operands, then the gate's binder takes a_'s entries and b_'s.
logic_gate(a, b, gate) ==
    LET first  == binder_merge(EmptyBinder, a.binder_)
        second == binder_merge(first.into, b.binder_)
        a_     == [a EXCEPT !.binder_ = first.from]
        b_     == [b EXCEPT !.binder_ = second.from]
    IN  Expr("logic_gate", gate, "", EmptyString, "", 0, gate, second.into,
             <<a_, b_>>)

\* Mutant: a name that is not a JSON path rendered without its brackets.
RECURSIVE to_query_string_bare_column(_)
to_query_string_bare_column(e) ==
    IF e.kind = "logic_gate"
    THEN to_query_string_bare_column(e.kids[1])
             \o <<Lit(" "), Lit(e.gate_), Lit(" ")>>
             \o to_query_string_bare_column(e.kids[2])
    ELSE IF e.index_ = -1
         THEN <<Lit("["), Str(e.var_), Lit("] "), Lit(e.op_), Lit(" NULL")>>
         ELSE IF Len(e.var_) > 0 /\ e.var_[1] = "$"
              THEN <<Lit("(json_extract(body, '"), Str(e.var_), Lit("') "),
                     Lit(e.op_), Lit(" "), Ph(e.index_), Lit(")")>>
              ELSE <<Lit("("), Str(e.var_), Lit(" "), Lit(e.op_),
                     Lit(" "), Ph(e.index_), Lit(")")>>

\* to_query_string() of binary_op and of logic_gate.
RECURSIVE to_query_string(_)
to_query_string(e) ==
    IF e.kind = "logic_gate"
    THEN to_query_string(e.kids[1]) \o <<Lit(" "), Lit(e.gate_), Lit(" ")>>
             \o to_query_string(e.kids[2])
    ELSE LET json_query    == Len(e.var_) > 0 /\ e.var_[1] = "$"
             is_value_null == e.index_ = -1
         IN  IF is_value_null
             THEN IF json_query
                  THEN <<Lit("json_type(body, '"), Str(e.var_),
                         Lit("') IS NOT NULL AND json_extract(body, '"),
                         Str(e.var_), Lit("') "), Lit(e.op_), Lit(" NULL")>>
                  ELSE <<Lit("["), Str(e.var_), Lit("] "), Lit(e.op_),
                         Lit(" NULL")>>
             ELSE IF json_query
                  THEN <<Lit("(json_extract(body, '"), Str(e.var_), Lit("') "),
                         Lit(e.op_), Lit(" "), Ph(e.index_), Lit(")")>>
                  ELSE <<Lit("(["), Str(e.var_), Lit("] "), Lit(e.op_),
                         Lit(" "), Ph(e.index_), Lit(")")>>

NoQuery ==
    [op |-> "none", i |-> 0, j |-> 0, text |-> <<>>, binder |-> EmptyBinder]

QueryCall(op, i, j, text, binder) ==
    [op |-> op, i |-> i, j |-> j, text |-> text, binder |-> binder]

Slots == 1 .. Len(pool)

\* The process was aborted by a trapping overflow.
Aborted == qlast.op = "abort"

\* How many predicates a loop constructs in one go.
BulkSizes == {MAX_VAR_NUM - 2, MAX_VAR_NUM - 1}

RECURSIVE LeafCount(_)
LeafCount(e) ==
    IF e.kind = "logic_gate" THEN LeafCount(e.kids[1]) + LeafCount(e.kids[2])
    ELSE 1

RECURSIVE Sum(_)
Sum(seq) == IF seq = <<>> THEN 0 ELSE Head(seq) + Sum(Tail(seq))

\* The predicates constructed so far (a moved-from operand is not counted:
\* its predicates live on in the gate).
Leaves == Sum([q \in Slots |-> IF pool[q].moved THEN 0 ELSE LeafCount(pool[q])])

QueryIdle ==
    /\ bind_counter = [t \in Threads |-> 0]
    /\ pool = <<>>
    /\ qlast = NoQuery

QueryInit ==
    /\ bind_counter \in [Threads -> CounterStarts]
    /\ pool = <<>>
    /\ qlast = NoQuery

\* eq / neq / gt (name, db_value&&) constructed on thread t.
Compare(t, ctor, name, val) ==
    /\ ~Aborted
    /\ Leaves < MaxLeaves
    /\ Len(pool) < MaxExprs
    /\ \/ \E counter \in PreIncrement(bind_counter[t]) :
             /\ bind_counter' = [bind_counter EXCEPT ![t] = counter]
             /\ pool' = Append(pool,
                    [binary_op(ctor, name, Operators[ctor], val, counter)
                        EXCEPT !.thread = t, !.made_at = counter,
                               !.serial = Len(pool) + 1])
             /\ qlast' = QueryCall(ctor, Len(pool) + 1, 0, <<>>, EmptyBinder)
       \/ /\ Traps(bind_counter[t])
          /\ qlast' = QueryCall("abort", 0, 0, <<>>, EmptyBinder)
          /\ UNCHANGED <<bind_counter, pool>>
    /\ UNCHANGED <<storeVars, schemaVars>>

\* n value-carrying predicates constructed on thread t one after the other
\* and destroyed again (a loop of queries): the counter has advanced by n.
ConstructMany(t, n) ==
    /\ ~Aborted
    /\ bind_counter[t] >= 0
    /\ bind_counter[t] < MAX_VAR_NUM - 2
    /\ bind_counter' = [bind_counter EXCEPT ![t] = @ + n]
    /\ qlast' = QueryCall("construct_many", t, n, <<>>, EmptyBinder)
    /\ UNCHANGED pool
    /\ UNCHANGED <<storeVars, schemaVars>>

\* eq / neq (name, nullptr): no counter is touched.
CompareNull(ctor, name) ==
    /\ ~Aborted
    /\ Leaves < MaxLeaves
    /\ Len(pool) < MaxExprs
    /\ pool' = Append(pool, [binary_op_null(ctor, name, NullOperators[ctor])
                                 EXCEPT !.serial = Len(pool) + 1])
    /\ qlast' = QueryCall(ctor, Len(pool) + 1, 0, <<>>, EmptyBinder)
    /\ UNCHANGED bind_counter
    /\ UNCHANGED <<storeVars, schemaVars>>

\* std::move(pool[i]) && std::move(pool[j]), and ||: the operands are
\* rvalues (the operators do not compile for lvalues), so the caller's
\* objects are left moved-from.
Gate(i, j, gate, strings_kept) ==
    /\ ~Aborted
    /\ i # j
    /\ ~pool[i].moved /\ ~pool[j].moved
    /\ Len(pool) < MaxExprs
    /\ pool' = Append([pool EXCEPT ![i] = MovedFrom(pool[i], strings_kept),
                                   ![j] = MovedFrom(pool[j], strings_kept)],
                      [logic_gate(pool[i], pool[j], gate)
                          EXCEPT !.serial = Len(pool) + 1])
    /\ qlast' = QueryCall(gate, i, j, <<>>, EmptyBinder)
    /\ UNCHANGED bind_counter
    /\ UNCHANGED <<storeVars, schemaVars>>

logic_and(i, j, strings_kept) == Gate(i, j, "AND", strings_kept)

logic_or(i, j, strings_kept) == Gate(i, j, "OR", strings_kept)

\* db_collection::find(q) and count(q) on pool[i]: the text that follows
\* WHERE and the binder whose entries are bound to the statement.
db_collection_find(i) ==
    /\ ~Aborted
    /\ qlast' = QueryCall("find", i, 0, to_query_string(pool[i]), pool[i].binder_)
    /\ UNCHANGED <<bind_counter, pool>>
    /\ UNCHANGED <<storeVars, schemaVars>>

QueryNext ==
    \/ \E t \in Threads, ctor \in ValueCtors, name \in Names, val \in DbValues :
          Compare(t, ctor, name, val)
    \/ \E ctor \in DOMAIN NullOperators, name \in Names : CompareNull(ctor, name)
    \/ \E i \in Slots, j \in Slots, kept \in BOOLEAN : logic_and(i, j, kept)
    \/ \E i \in Slots, j \in Slots, kept \in BOOLEAN : logic_or(i, j, kept)
    \/ \E i \in Slots : db_collection_find(i)

\* The names predicates are rendered with: JSON paths, column names, the
\* empty string, and a name with the sigil $ after its first character.
RenderNames == Names \cup {EmptyString, <<"a", "$">>}

\* Predicates of every comparison struct, the gates over them and find.
RenderNext ==
    \/ \E ctor \in DOMAIN Operators, name \in RenderNames, val \in DbValues :
          Compare(1, ctor, name, val)
    \/ \E i \in Slots, j \in Slots : logic_or(i, j, TRUE)
    \/ \E i \in Slots : db_collection_find(i)

\* The allocation of placeholder indices alone: predicates built on either
\* thread, loops that build many, and the gates that combine them.
CounterNext ==
    \/ \E t \in Threads, val \in DbValues : Compare(t, "eq", <<"c">>, val)
    \/ \E t \in Threads, n \in BulkSizes : ConstructMany(t, n)
    \/ \E i \in Slots, j \in Slots : logic_and(i, j, TRUE)

(***************************************************************************)
(* Queries against the collection: find, count and docs.  The WHERE text   *)
(* an expression renders is evaluated row by row with SQL's three truth    *)
(* values; a placeholder with no binder entry is NULL.                     *)
(***************************************************************************)
\* The keys of a JSON path text such as $.a.b (keys of one character).
RECURSIVE JsonPathKeys(_)
JsonPathKeys(chars) ==
    IF chars = <<>> THEN <<>>
    ELSE IF Head(chars) \in {"$", "."} THEN JsonPathKeys(Tail(chars))
    ELSE <<Head(chars)>> \o JsonPathKeys(Tail(chars))

\* Whether the table has a column of this name.
HasColumn(cols, name) ==
    name \in (DOMAIN cols) \cup {<<"b", "o", "d", "y">>, <<"d", "o", "c", "i", "d">>}

\* json_extract(body, '<var>') or [<var>] in the row with this body.
ColumnRef(cols, body, var) ==
    IF Len(var) > 0 /\ var[1] = "$" THEN JsonExtract(body, JsonPathKeys(var))
    ELSE IF var \in DOMAIN cols THEN ColumnValue(cols, body, var)
    ELSE IF var = <<"d", "o", "c", "i", "d">> THEN JsonExtract(body, <<"docid">>)
    ELSE body

\* The integer a db_value or a JSON integer of the model denotes.
Num(text) == CHOOSE n \in 0 .. 9 : ToString(n) = text

\* <x> <op> ?k with ?k bound to val ("null": NULL).  An integer sorts
\* before any text.
SqlCompare(op, x, val) ==
    IF val = "null" \/ IsSqlNull(x) THEN "null"
    ELSE LET c == IF x.k = "integer"
                  THEN (IF Num(x.v) < Num(val) THEN -1
                        ELSE IF Num(x.v) = Num(val) THEN 0 ELSE 1)
                  ELSE 1
             holds == CASE op = "="  -> c = 0
                        [] op = "!=" -> c # 0
                        [] op = ">"  -> c > 0
                        [] op = "<"  -> c < 0
                        [] op = ">=" -> c >= 0
                        [] op = "<=" -> c <= 0
                        [] OTHER     -> FALSE
         IN  IF holds THEN "true" ELSE "false"

\* The truth of the text a binary_op renders, in the row with this body.
Where(cols, e, body) ==
    LET json_query == Len(e.var_) > 0 /\ e.var_[1] = "$"
        x          == ColumnRef(cols, body, e.var_)
        is_null    == IF e.op_ = "IS" THEN IsSqlNull(x) ELSE ~IsSqlNull(x)
    IN  IF e.index_ = -1
        THEN IF json_query
             THEN (IF JsonType(body, JsonPathKeys(e.var_)) # "" /\ is_null
                   THEN "true" ELSE "false")
             ELSE (IF is_null THEN "true" ELSE "false")
        ELSE SqlCompare(e.op_, x,
                        IF e.index_ \in DOMAIN e.binder_ THEN e.binder_[e.index_]
                        ELSE "null")

\* Preparing SELECT ... WHERE <text> fails when the text names a column the
\* table lacks; the statement constructor throws.
Prepares(cols, e) ==
    (Len(e.var_) > 0 /\ e.var_[1] = "$") \/ HasColumn(cols, e.var_)

Matching(tbl, cols, e) == {b \in tbl : Where(cols, e, b) = "true"}

Refs(bodies) == [k |-> "refs", v |-> "", o |-> [id \in {Docid(b) : b \in bodies} |-> JNull]]

Count(bodies) == Scalar("std::size_t", ToString(Cardinality(bodies)))

\* db_collection::find(q): the refs of the rows the WHERE text selects.
find(tbl, cols, e) ==
    IF Prepares(cols, e) THEN Returned(Refs(Matching(tbl, cols, e)))
    ELSE Threw("stmt_exception")

\* Mutant: the count taken without the WHERE clause.
count_where_every_row(tbl, cols, e) == Returned(Count(tbl))

\* db_collection::count(q): SELECT COUNT(*) ... WHERE <text>
count_where(tbl, cols, e) ==
    IF Prepares(cols, e) THEN Returned(Count(Matching(tbl, cols, e)))
    ELSE Threw("stmt_exception")

\* A query through the collection with the predicate ctor(name, val): only
\* the record of the call changes.
QueryThrough(op, e, out) ==
    /\ nops < MaxOps
    /\ last' = Call(op, 0, "", JsonPathKeys(e.var_), Scalar(e.ctor, e.arg), table, out)
    /\ nops' = nops + 1
    /\ UNCHANGED <<table, docs, erased, pool, qlast, schemaVars>>

\* coll.find(ctor(name, val)) and coll.count(ctor(name, val)), the predicate
\* built on thread 1 from a db_value.
db_collection_find_value(ctor, name, val) ==
    \E counter \in PreIncrement(bind_counter[1]) :
        LET e == binary_op(ctor, name, Operators[ctor], val, counter)
        IN  /\ bind_counter' = [bind_counter EXCEPT ![1] = counter]
            /\ QueryThrough("find", e, find(table, columns, e))

db_collection_count_value(ctor, name, val) ==
    \E counter \in PreIncrement(bind_counter[1]) :
        LET e == binary_op(ctor, name, Operators[ctor], val, counter)
        IN  /\ bind_counter' = [bind_counter EXCEPT ![1] = counter]
            /\ QueryThrough("count", e, count_where(table, columns, e))

\* coll.find(eq(name, nullptr)) and coll.count(eq(name, nullptr))
db_collection_find_null(ctor, name) ==
    LET e == binary_op_null(ctor, name, NullOperators[ctor])
    IN  /\ QueryThrough("find", e, find(table, columns, e))
        /\ UNCHANGED bind_counter

db_collection_count_null(ctor, name) ==
    LET e == binary_op_null(ctor, name, NullOperators[ctor])
    IN  /\ QueryThrough("count", e, count_where(table, columns, e))
        /\ UNCHANGED bind_counter

\* db_collection::count(): SELECT COUNT(*) FROM [t]
db_collection_count ==
    /\ nops < MaxOps
    /\ last' = Call("count_all", 0, "", <<>>, NotFound, table, Returned(Count(table)))
    /\ nops' = nops + 1
    /\ UNCHANGED <<table, docs, erased, queryVars, schemaVars>>

\* db_collection::docs(): SELECT docid FROM [t]
db_collection_docs ==
    /\ nops < MaxOps
    /\ last' = Call("docs", 0, "", <<>>, NotFound, table, Returned(Refs(table)))
    /\ nops' = nops + 1
    /\ UNCHANGED <<table, docs, erased, queryVars, schemaVars>>

FindNext ==
    \/ \E id \in Ids : db_collection_create(id)
    \/ \E h \in Handles, p \in Paths, val \in Values : db_document_set(h, p, val)
    \/ \E h \in Handles : db_document_erase(h)
    \/ \E h \in Handles, p \in Paths : db_document_get_type(h, p)
    \/ \E ctor \in ValueCtors, name \in Names, val \in DbValues :
          db_collection_find_value(ctor, name, val)
    \/ \E ctor \in ValueCtors, name \in Names, val \in DbValues :
          db_collection_count_value(ctor, name, val)
    \/ \E ctor \in DOMAIN NullOperators, name \in Names :
          db_collection_find_null(ctor, name)
    \/ \E ctor \in DOMAIN NullOperators, name \in Names :
          db_collection_count_null(ctor, name)
    \/ db_collection_count
    \/ db_collection_docs

(***************************************************************************)
(* Indexes: db_collection::index in its single-column and multi-column     *)
(* forms.  A column name is a sequence of characters, as in the query      *)
(* engine; the path of a projected column is the sequence of its keys.     *)
(***************************************************************************)
\* The columns of CREATE TABLE: body and docid.
TableColumns == {<<"b", "o", "d", "y">>, <<"d", "o", "c", "i", "d">>}

\* SQLite compares the names of columns and indexes without regard to case.
Fold(name) == [q \in DOMAIN name |-> IF name[q] = "C" THEN "c" ELSE name[q]]

\* SELECT COUNT(*) FROM pragma_table_xinfo('t') WHERE name=?1, a comparison
\* that does regard case.
column_exists(cols, column_name) ==
    column_name \in (DOMAIN cols) \cup TableColumns

\* ALTER TABLE [t] ADD COLUMN [c] GENERATED ALWAYS AS
\* (json_extract(body, 'path')) VIRTUAL: refused when the table has a column
\* of that name in any case.
AddColumn(cols, column_name, path) ==
    IF \E c \in (DOMAIN cols) \cup TableColumns : Fold(c) = Fold(column_name)
    THEN [ok |-> FALSE, cols |-> cols]
    ELSE [ok |-> TRUE,
          cols |-> [c \in (DOMAIN cols) \cup {column_name} |->
                       IF c = column_name THEN path ELSE cols[c]]]

Index(name, column_names, unique) ==
    [name |-> name, cols |-> column_names, unique |-> unique]

\* Idx_{table}_{column}
IndexName(column_name) == <<"I", "d", "x", "_", "t", "_">> \o column_name

\* CREATE {UNIQUE} INDEX IF NOT EXISTS [name] on [t](c1,..,cn): nothing is
\* done when an index of that name exists; a unique index is refused when
\* the rows already stored hold a duplicate.
CreateIndex(tbl, cols, idxs, name, column_names, unique) ==
    IF \E i \in idxs : Fold(i.name) = Fold(name)
    THEN [ok |-> TRUE, idxs |-> idxs]
    ELSE IF \E q \in DOMAIN column_names : column_names[q] \notin DOMAIN cols
    THEN [ok |-> FALSE, idxs |-> idxs]
    ELSE IF unique /\ ~UniqueHolds(tbl, cols, Index(name, column_names, unique))
    THEN [ok |-> FALSE, idxs |-> idxs]
    ELSE [ok |-> TRUE, idxs |-> idxs \cup {Index(name, column_names, unique)}]

\* The arguments of an index call, as the record of the call keeps them.
IndexArgs(name, pairs, unique) ==
    [k |-> IF unique THEN "unique" ELSE "plain", v |-> "", o |-> <<name, pairs>>]

\* db_collection::index(column_name, query, unique): the two statements run
\* one after the other in autocommit mode; the ALTER TABLE is refused when
\* it is prepared, the CREATE INDEX when it is stepped.
db_collection_index(column_name, query, unique) ==
    /\ nops < MaxOps
    /\ LET added == IF column_exists(columns, column_name)
                    THEN [ok |-> TRUE, cols |-> columns]
                    ELSE AddColumn(columns, column_name, query)
           created == CreateIndex(table, added.cols, indexes,
                                  IndexName(column_name), <<column_name>>, unique)
           out == IF ~added.ok THEN Threw("stmt_exception")
                  ELSE IF ~created.ok THEN Threw("Failed to create index")
                  ELSE NoOut
       IN  /\ columns' = added.cols
           /\ indexes' = IF added.ok THEN created.idxs ELSE indexes
           /\ last' = Call("index", 0, "", query,
                           IndexArgs(IndexName(column_name),
                                     <<(<<column_name, query>>)>>, unique),
                           table, out)
    /\ nops' = nops + 1
    /\ UNCHANGED <<table, docs, erased, queryVars, in_transaction>>

\* The loop over the (column, path) pairs: each column that does not exist
\* is added; the first refusal ends the loop with the columns added so far.
RECURSIVE AddColumns(_, _)
AddColumns(cols, pairs) ==
    IF pairs = <<>> THEN [ok |-> TRUE, cols |-> cols]
    ELSE IF column_exists(cols, pairs[1][1]) THEN AddColumns(cols, Tail(pairs))
    ELSE LET added == AddColumn(cols, pairs[1][1], pairs[1][2])
         IN  IF added.ok THEN AddColumns(added.cols, Tail(pairs)) ELSE added

\* The column names joined by commas.
ColumnList(pairs) == [q \in DOMAIN pairs |-> pairs[q][1]]

\* Mutant: a transaction whose destructor does not roll back.
transaction_never_rolled_back(before, working, committed) ==
    [columns |-> working.columns, indexes |-> working.indexes, open |-> ~committed]

\* details::sqlite::transaction from BEGIN on: commit() makes the work of
\* the scope permanent; leaving the scope without it runs ROLLBACK in the
\* destructor, which undoes schema changes as well.
transaction(before, working, committed) ==
    IF committed
    THEN [columns |-> working.columns, indexes |-> working.indexes, open |-> FALSE]
    ELSE [columns |-> before.columns, indexes |-> before.indexes, open |-> FALSE]

\* db_collection::index(name, columns, unique).  commits is whether COMMIT
\* goes through; it does not while another connection reads the database.
db_collection_index_columns(name, pairs, unique, commits) ==
    /\ nops < MaxOps
    /\ IF in_transaction
       THEN /\ UNCHANGED schemaVars
            /\ last' = Call("index_columns", 0, "", <<>>, IndexArgs(name, pairs, unique),
                            table, Threw("Failed to begin transaction"))
       ELSE LET added == AddColumns(columns, pairs)
                created == CreateIndex(table, added.cols, indexes, name,
                                       ColumnList(pairs), unique)
                worked == added.ok /\ created.ok
                scope == transaction(
                             [columns |-> columns, indexes |-> indexes],
                             [columns |-> added.cols,
                              indexes |-> IF added.ok THEN created.idxs ELSE indexes],
                             worked /\ commits)
                out == IF ~added.ok THEN Threw("Failed to alter table")
                       ELSE IF ~created.ok THEN Threw("Failed to create index")
                       ELSE IF ~commits THEN Threw("Failed to commit transaction")
                       ELSE NoOut
            IN  /\ columns' = scope.columns
                /\ indexes' = scope.indexes
                /\ in_transaction' = scope.open
                /\ last' = Call("index_columns", 0, "", <<>>,
                                IndexArgs(name, pairs, unique), table, out)
    /\ nops' = nops + 1
    /\ UNCHANGED <<table, docs, erased, queryVars>>

\* The keys documents are written at and the columns projected from them.
IndexPaths == {<<"a">>, <<"b">>}

IndexValues == {JInt("1"), JText("y")}

Projections == {<<(<<"c">>), (<<"a">>)>>, <<(<<"d">>), (<<"b">>)>>}

ColumnSets ==
    { <<(<<(<<"c">>), (<<"a">>)>>), (<<(<<"d">>), (<<"b">>)>>)>>,
      <<(<<(<<"d">>), (<<"b">>)>>), (<<(<<"C">>), (<<"a">>)>>)>> }

IndexNames == {<<"i">>}

\* The bodies a document has been given before the first index call.
Written(id) ==
    { DocBody(id),
      Obj(With(DocBody(id).o, "a", JInt("1"))),
      Obj(With(With(DocBody(id).o, "a", JInt("1")), "b", JText("y"))) }

\* A collection that holds x, or x and y, each written through its handle.
IndexInit ==
    /\ \E bx \in Written("x") :
          \/ /\ table = {bx}
             /\ docs = <<[db_document_with_body("x", DocBody("x"))
                             EXCEPT !.invalid_body = TRUE]>>
          \/ \E by \in Written("y") :
                /\ table = {bx, by}
                /\ docs = <<[db_document_with_body("x", DocBody("x"))
                                EXCEPT !.invalid_body = TRUE],
                            [db_document_with_body("y", DocBody("y"))
                                EXCEPT !.invalid_body = TRUE]>>
    /\ erased = {}
    /\ last = NoCall
    /\ nops = 0

IndexNext ==
    \/ \E id \in Ids : db_collection_create(id)
    \/ \E h \in Handles, p \in IndexPaths, val \in IndexValues :
          db_document_set(h, p, val)
    \/ \E c \in Projections, unique \in BOOLEAN :
          db_collection_index(c[1], c[2], unique)
    \/ \E name \in IndexNames, pairs \in ColumnSets, unique \in BOOLEAN,
          commits \in BOOLEAN :
          db_collection_index_columns(name, pairs, unique, commits)

(***************************************************************************)
(* Prepared statements.  What one operation does with its statement, as    *)
(* the sequence of calls made on the sqlite3_stmt: details::sqlite::        *)
(* statement prepares in its constructor and finalizes in its destructor,   *)
(* and declares no copy or move operation of its own.                       *)
(***************************************************************************)
\* How the operation leaves: the constructor throws, a bind throws, or the
\* step ends with a row, with SQLITE_DONE or with an error code.
Exits == {"prepare_fails", "bind_fails", "step_row", "step_done", "step_fails"}

\* statement::statement and the calls up to the step: a constructor that
\* throws leaves no object, so no destructor runs (and SQLite hands out no
\* statement); a bind that throws unwinds the scope.
Prepared(exit) ==
    IF exit = "prepare_fails" THEN <<"prepare_failed">>
    ELSE IF exit = "bind_fails" THEN <<"prepare", "bind_failed">>
    ELSE <<"prepare", "bind", "step">>

\* statement::~statement
Destroyed(exit) == IF exit = "prepare_fails" THEN <<>> ELSE <<"finalize">>

\* An operation that keeps its statement in a local variable, as
\* get_value_impl does: the value is read from a row, then the scope ends by
\* return or by throw.
statement_scope(exit) ==
    Prepared(exit) \o (IF exit = "step_row" THEN <<"column">> ELSE <<>>)
                   \o Destroyed(exit)

\* db_document::get<Types...>: get_value_stmt_impl returns its local
\* statement by value and get_values_impl reads the columns from what the
\* caller received.  When the build elides the copy of the returned local
\* there is one object; when it does not, the implicit copy constructor
\* copies stmt_, the local is destroyed, and the caller reads from and
\* destroys the copy.
get_value_stmt(exit, elided) ==
    IF exit # "step_row" THEN Prepared(exit) \o Destroyed(exit)
    ELSE IF elided THEN Prepared(exit) \o <<"column">> \o Destroyed(exit)
    ELSE Prepared(exit) \o <<"copy">> \o Destroyed(exit) \o <<"column">>
             \o Destroyed(exit)

\* The operations with a statement of their own.
ScopedOperations == {"get_string", "set", "create", "remove", "count", "index"}

StatementCall(op, exit, calls) ==
    [NoCall EXCEPT !.op = op, !.ok = exit \in {"step_row", "step_done"},
                   !.sit = exit, !.arg = [k |-> "calls", v |-> "", o |-> calls]]

\* One operation run to its exit: only the record of the call changes.
db_operation(op, exit) ==
    /\ nops < MaxOps
    /\ last' = StatementCall(op, exit, statement_scope(exit))
    /\ nops' = nops + 1
    /\ UNCHANGED <<table, docs, erased, queryVars, schemaVars>>

\* doc.get<T>({field}) run to its exit.
db_document_get_values(exit, elided) ==
    /\ nops < MaxOps
    /\ last' = StatementCall("get", exit, get_value_stmt(exit, elided))
    /\ nops' = nops + 1
    /\ UNCHANGED <<table, docs, erased, queryVars, schemaVars>>

(***************************************************************************)
(* Enumerations: the do/while loops of find, docs and collections, with    *)
(* the result code of the step that ends the loop.                         *)
(***************************************************************************)
SQLITE_BUSY == "SQLITE_BUSY"

SQLITE_INTERRUPT == "SQLITE_INTERRUPT"

\* The codes sqlite3_step ends an enumeration with: completion, a generic
\* error, the database locked by another connection, sqlite3_interrupt.
StepCodes == {SQLITE_DONE, SQLITE_ERROR, SQLITE_BUSY, SQLITE_INTERRUPT}

\* The tables of the database file.
Collections == {"t", "u"}

\* The rows a SELECT over these rows may have delivered when its last step
\* gives code: all of them at SQLITE_DONE, any part of them otherwise.
Delivered(rows, code) == IF code = SQLITE_DONE THEN {rows} ELSE SUBSET rows

\* do { step; if (rc == SQLITE_ERROR) throw; else if (rc != SQLITE_ROW)
\* break; else push_back } while (true); return: the list built so far is
\* returned for every code that is neither SQLITE_ROW nor SQLITE_ERROR.
enumerate(items, code, failure) ==
    IF code = SQLITE_ERROR THEN Threw(failure) ELSE Returned(items)

Enumeration(op, code, out) ==
    /\ nops < MaxOps
    /\ last' = Call(op, 0, "", <<>>, Scalar("step", code), table, out)
    /\ nops' = nops + 1
    /\ UNCHANGED <<table, docs, erased, queryVars, schemaVars>>

\* db_collection::docs()
db_collection_docs_stepped(code) ==
    \E rows \in Delivered(table, code) :
        Enumeration("docs", code,
                    enumerate(Refs(rows), code, "Failed to enumerate documents"))

\* db_collection::find(neq("$.a", nullptr))
db_collection_find_stepped(code) ==
    LET e == binary_op_null("neq", <<"$", ".", "a">>, NullOperators["neq"])
    IN  \E rows \in Delivered(Matching(table, columns, e), code) :
            Enumeration("find", code,
                        enumerate(Refs(rows), code, "Failed to enumerate documents"))

\* database::collections()
database_collections(code) ==
    \E names \in Delivered(Collections, code) :
        Enumeration("collections", code,
                    enumerate([k |-> "collections", v |-> "",
                               o |-> [c \in names |-> JNull]],
                              code, "Failed to enumerate collections"))

\* Operations seen from the engine: what happens to their statements and
\* how their enumerations end, over a collection that is written to.
EngineNext ==
    \/ \E id \in Ids : db_collection_create(id)
    \/ \E h \in Handles, val \in Values : db_document_set(h, <<"a">>, val)
    \/ \E op \in ScopedOperations, exit \in Exits : db_operation(op, exit)
    \/ \E exit \in Exits, elided \in BOOLEAN : db_document_get_values(exit, elided)
    \/ \E code \in StepCodes : db_collection_docs_stepped(code)
    \/ \E code \in StepCodes : db_collection_find_stepped(code)
    \/ \E code \in StepCodes : database_collections(code)

(***************************************************************************)
(* find(q, order_by, limit): SELECT docid, <field> AS __order_by ... WHERE  *)
(* <text> ORDER BY __order_by <direction> LIMIT <n>.                        *)
(***************************************************************************)
\* Where a text stands among the texts of the model.
TextOrder(text) == CHOOSE n \in 1 .. 3 : <<"x", "y", "z">>[n] = text

\* ORDER BY on values of mixed types: NULL first, then numbers by value,
\* then texts.
SortRank(val) ==
    IF IsSqlNull(val) THEN <<0, 0>>
    ELSE IF val.k = "integer" THEN <<1, Num(val.v)>>
    ELSE <<2, TextOrder(val.v)>>

SortsBefore(v1, v2) ==
    \/ SortRank(v1)[1] < SortRank(v2)[1]
    \/ SortRank(v1)[1] = SortRank(v2)[1] /\ SortRank(v1)[2] < SortRank(v2)[2]

\* Mutant: a direction that is always ASC.
order_by_direction_ascending(ob) == "ASC"

\* order_by::direction()
order_by_direction(ob) == IF ob.ascending_ THEN "ASC" ELSE "DESC"

\* std::optional<order_by>: order_by(field), order_by(field, ascending), or
\* none.
NoOrder == [has |-> FALSE, field_ |-> EmptyString, ascending_ |-> TRUE]

order_by(field, ascending) == [has |-> TRUE, field_ |-> field, ascending_ |-> ascending]

order_by_default(field) == order_by(field, TRUE)

\* std::optional<int>
NoLimit == [has |-> FALSE, n |-> 0]

Limit(n) == [has |-> TRUE, n |-> n]

\* The orders in which the engine may deliver these rows: any order without
\* ORDER BY, otherwise every order in which no row comes after a row that
\* sorts after it in the direction asked for (rows with equal values in
\* any order).
ResultOrders(rows, cols, ob) ==
    {seq \in [1 .. Cardinality(rows) -> rows] :
        /\ \A q, r \in DOMAIN seq : q # r => seq[q] # seq[r]
        /\ ob.has =>
              \A q, r \in DOMAIN seq :
                  q < r =>
                     LET vq == ColumnRef(cols, seq[q], ob.field_)
                         vr == ColumnRef(cols, seq[r], ob.field_)
                     IN  IF order_by_direction(ob) = "ASC"
                         THEN ~SortsBefore(vr, vq)
                         ELSE ~SortsBefore(vq, vr)}

\* LIMIT n
Limited(seq, limit) ==
    IF limit.has /\ limit.n < Len(seq) THEN SubSeq(seq, 1, limit.n) ELSE seq

\* The refs pushed back row by row.
RefList(seq) == [k |-> "refs", v |-> "", o |-> [q \in DOMAIN seq |-> Docid(seq[q])]]

\* What find(q, order_by, limit) may return.
find_ordered(tbl, cols, e, ob, limit) ==
    IF Prepares(cols, e) /\ (ob.has => Prepares(cols, [var_ |-> ob.field_]))
    THEN {Returned(RefList(Limited(seq, limit))) :
             seq \in ResultOrders(Matching(tbl, cols, e), cols, ob)}
    ELSE {Threw("stmt_exception")}

OrderedCall(e, ob, limit, out) ==
    /\ nops < MaxFinds
    /\ last' = Call("find_ordered", 0, "", JsonPathKeys(e.var_),
                    [k |-> e.ctor, v |-> e.arg, o |-> [order |-> ob, limit |-> limit]],
                    table, out)
    /\ nops' = nops + 1
    /\ UNCHANGED <<table, docs, erased, pool, qlast, schemaVars>>

\* coll.find(gt(name, val), order_by, limit)
db_collection_find_ordered(name, val, ob, limit) ==
    \E counter \in PreIncrement(bind_counter[1]) :
        LET e == binary_op("gt", name, Operators["gt"], val, counter)
        IN  /\ bind_counter' = [bind_counter EXCEPT ![1] = counter]
            /\ \E out \in find_ordered(table, columns, e, ob, limit) :
                  OrderedCall(e, ob, limit, out)

\* coll.find(neq("docid", nullptr), order_by, limit): every row matches.
db_collection_find_all_ordered(ob, limit) ==
    LET e == binary_op_null("neq", <<"d", "o", "c", "i", "d">>, NullOperators["neq"])
    IN  /\ \E out \in find_ordered(table, columns, e, ob, limit) :
              OrderedCall(e, ob, limit, out)
        /\ UNCHANGED bind_counter

\* The values the documents hold at $.a, the fields sorted by and the
\* limits asked for.
OrderValues == {JInt("1"), JInt("2"), JInt("3"), JText("y")}

OrderFields == {<<"$", ".", "a">>, <<"d", "o", "c", "i", "d">>}

OrderBys ==
    {NoOrder} \cup {order_by_default(f) : f \in OrderFields}
              \cup {order_by(f, asc) : f \in OrderFields, asc \in BOOLEAN}

Limits == {NoLimit} \cup {Limit(n) : n \in 0 .. MaxLimit}

\* The bodies a document of this id has after create and at most one set.
Valued(id) == {DocBody(id)} \cup {Obj(With(DocBody(id).o, "a", val)) : val \in OrderValues}

\* A collection of three documents written through handles since dropped.
OrderInit ==
    /\ \E bx \in Valued("x"), by \in Valued("y"), bz \in Valued("z") :
          table = {bx, by, bz}
    /\ docs = <<>>
    /\ erased = {}
    /\ last = NoCall
    /\ nops = 0

OrderNext ==
    \/ \E ob \in OrderBys, limit \in Limits :
          db_collection_find_ordered(<<"$", ".", "a">>, "1", ob, limit)
    \/ \E ob \in OrderBys, limit \in Limits : db_collection_find_all_ordered(ob, limit)

vars == <<table, docs, erased, last, nops, bind_counter, pool, qlast,
          columns, indexes, in_transaction>>

Init == StoreInit /\ QueryIdle /\ SchemaInit

Next == StoreNext

Spec == Init /\ [][Next]_vars

InitQuery == StoreInit /\ QueryInit /\ SchemaInit

NextQuery == QueryNext

SpecQuery == InitQuery /\ [][NextQuery]_vars

NextCounter == CounterNext

SpecCounter == InitQuery /\ [][NextCounter]_vars

\* Creation with ids of every shape, followed by reads and writes through
\* the handles.
CreateNext ==
    \/ \E id \in CreateIds : db_collection_create(id)
    \/ \E h \in Handles : db_document_body(h)
    \/ \E h \in Handles, val \in Values : db_document_set(h, <<"a">>, val)
    \/ \E h \in Handles : db_document_erase(h)

NextCreate == CreateNext

SpecCreate == Init /\ [][NextCreate]_vars

NextRender == RenderNext

InitRender == StoreInit /\ QueryIdle /\ SchemaInit

SpecRender == InitRender /\ [][NextRender]_vars

NextEngine == EngineNext

SpecEngine == Init /\ [][NextEngine]_vars

InitOrder == OrderInit /\ QueryIdle /\ SchemaInit

NextOrder == OrderNext

SpecOrder == InitOrder /\ [][NextOrder]_vars

NextFind == FindNext

SpecFind == Init /\ [][NextFind]_vars

InitIndex == IndexInit /\ QueryIdle /\ SchemaInit

NextIndex == IndexNext

SpecIndex == InitIndex /\ [][NextIndex]_vars


(***************************************************************************)
(* Claims about the document store, stated over Spec.                      *)
(***************************************************************************)
Writes == {"set", "insert", "replace", "patch", "body_write"}

\* The body of the row a write through last'.id updated, after the step.
NewBody(tbl, tbl2, body) ==
    IF tbl2 = tbl THEN body ELSE CHOOSE n \in tbl2 \ tbl : TRUE

\* C1: for a handle that is the only writer of its row (the only handle there
\* is, nothing erased), after successful create, set, insert, replace, patch
\* and body(text) calls, body() returns exactly the body stored for its id.
C1_BodyReturnsStored ==
    (last.op = "body" /\ last.ok /\ Len(docs) = 1 /\ erased = {} /\ table # {})
        => /\ RowsWhere(table, last.id) # {}
           /\ last.out.val = RowOf(table, last.id)

\* C2: after a document is erased, every later set, insert, replace, patch,
\* body(text) and body() call on a handle with that identity fails with a
\* not-found condition and changes nothing in the store.
C2_ErasedCallsFail ==
    [][ (last'.op \in Writes \cup {"body"} /\ last'.was_erased /\ ~last'.found
         /\ nops' = nops + 1)
            => (~last'.ok /\ table' = table) ]_vars

\* C3: erase() on a Document or DocumentRef and Collection.remove(id), when
\* no row with that id exists, is reported as a failure.
C3_EraseMissingFails ==
    (last.op \in {"erase", "ref_erase", "remove"} /\ ~last.found) => ~last.ok


\* The keys and the paths the claims quantify over.
Keys == {"a", "b", "c", "docid"}

AllPaths == {<<q>> : q \in Keys} \cup {<<q, r>> : q \in Keys, r \in Keys}

IsPrefix(p, q) == Len(p) <= Len(q) /\ SubSeq(q, 1, Len(p)) = p

\* q is neither an ancestor nor a descendant of p (nor p itself).
Unrelated(p, q) == ~IsPrefix(p, q) /\ ~IsPrefix(q, p)

Exists(body, p) == JsonLookup(body, p).k # "not_found"

\* Every proper ancestor of p is an object or absent.
RECURSIVE Reachable(_, _)
Reachable(j, p) ==
    IF Len(p) <= 1 THEN j.k = "object"
    ELSE /\ j.k = "object"
         /\ Head(p) \in DOMAIN j.o => Reachable(j.o[Head(p)], Tail(p))

\* p resolves to val in nb, and every unrelated path resolves as in b.
WrittenAt(b, nb, p, val) ==
    /\ JsonLookup(nb, p) = val
    /\ \A q \in AllPaths : Unrelated(p, q) => JsonLookup(nb, q) = JsonLookup(b, q)

\* The set/insert/replace rule as the claim words it, for any path.
C4_Rule(op, b, nb, p, val) ==
    IF op = "set" \/ (op = "insert" /\ ~Exists(b, p)) \/ (op = "replace" /\ Exists(b, p))
    THEN WrittenAt(b, nb, p, val)
    ELSE nb = b

\* A step that is a successful set, insert or replace on an existing row.
C4_Call ==
    /\ nops' = nops + 1
    /\ last'.op \in {"set", "insert", "replace"}
    /\ last'.ok
    /\ last'.found

RECURSIVE C5_Merged(_, _, _)
C5_Merged(b, f, nb) ==
    /\ nb.k = "object"
    /\ DOMAIN nb.o \subseteq Keys
    /\ \A q \in Keys :
         LET fq == JsonLookup(f, <<q>>)
             bq == JsonLookup(b, <<q>>)
             nq == JsonLookup(nb, <<q>>)
         IN  IF fq.k = "not_found" THEN nq = bq
             ELSE IF fq.k = "null" THEN nq.k = "not_found"
             ELSE IF fq.k = "object"
                  THEN C5_Merged(IF bq.k = "object" THEN bq ELSE EmptyObj, fq, nq)
             ELSE nq = fq

\* C5: patch(json) deep-merges the fragment into the stored body: a null
\* member removes the field, an object member merges recursively into an
\* existing object, every other member (scalar or array) replaces the value
\* wholesale, and fields the fragment does not name are unchanged.
C5_PatchMerges ==
    [][ (nops' = nops + 1 /\ last'.op = "patch" /\ last'.ok /\ last'.found)
          => LET b  == last'.pre
                 nb == NewBody(table, table', b)
             IN  /\ table' = (table \ {b}) \cup {nb}
                 /\ C5_Merged(b, last'.arg, nb) ]_vars

\* Reached: {"a":{"b":null}} patched into a body whose $.a holds both b and
\* c: b is removed, c and docid stay.
C5_Witness ==
    /\ last.op = "patch" /\ last.ok /\ last.found
    /\ last.arg = ObjA(ObjB(JNull))
    /\ Exists(last.pre, <<"a", "b">>) /\ Exists(last.pre, <<"a", "c">>)
    /\ ~Exists(RowOf(table, last.id), <<"a", "b">>)
    /\ JsonLookup(RowOf(table, last.id), <<"a", "c">>) = JArray("[1,2]")

Getters == {"get_string", "get_number", "get_real", "get_type",
            "get_array_length", "get_object_keys", "get"}

\* C6: each field-level read gives three mutually distinguishable outcomes
\* for: the document does not exist; the document exists but the path is
\* absent; the path holds an explicit JSON null.  Two consecutive calls of
\* the same read (nothing written in between) that meet two different
\* situations must differ in what they return or throw.
C6_ThreeOutcomes ==
    [][ ( /\ nops' = nops + 1
          /\ last.op \in Getters /\ last'.op = last.op /\ last'.arg = last.arg
          /\ {last.sit, last'.sit} \subseteq {"no_document", "no_path", "null"}
          /\ last.sit # last'.sit )
            => last'.out # last.out ]_vars


\* C14: after a successful body(text) on a document whose row exists, with
\* a valid JSON object text (carrying the same docid, another one, or none),
\* the stored body is the text with its docid set to the document's id: the
\* docid field equals the original id, the handle's id is unchanged and the
\* row is found under the original id.
C14_BodyKeepsIdentity ==
    [][ (nops' = nops + 1 /\ last'.op = "body_write" /\ last'.ok /\ last'.found
           /\ last'.arg.k = "object")
          => /\ RowsWhere(table', last'.id) # {}
             /\ JsonLookup(RowOf(table', last'.id), <<"docid">>) = JText(last'.id)
             /\ RowOf(table', last'.id)
                   = Obj(With(last'.arg.o, "docid", JText(last'.id)))
             /\ docs'[last'.h].doc_id = last'.id
             /\ docs'[last'.h].doc_id = docs[last'.h].doc_id ]_vars

\* Reached: body(text) with a text that carries another document's id.
C14_Witness ==
    /\ last.op = "body_write" /\ last.ok /\ last.found
    /\ last.id = "x"
    /\ JsonLookup(last.arg, <<"docid">>) = JText("y")
    /\ RowsWhere(table, "x") # {}
    /\ JsonLookup(RowOf(table, "x"), <<"a">>) = JNull

\* The JSON object {"docid": id} and nothing else.
OnlyDocid(id) == Obj([kk \in {"docid"} |-> JText(id)])

\* C15: a body() that immediately follows a successful create(id), on the
\* document create returned, returns {"docid": id} with no other field, and
\* that is the body of the row stored under id.
C15_CreateRoundTrip ==
    [][ (last.op = "create" /\ last.ok /\ nops' = nops + 1
           /\ last'.op = "body" /\ last'.h = last.h)
          => /\ last'.out = Returned(OnlyDocid(last.id))
             /\ RowsWhere(table', last.id) = {OnlyDocid(last.id)} ]_vars

\* The ids docs() enumerates for a table.
IdsOf(tbl) == {Docid(b) : b \in tbl}

\* C16: a successful erase() of an existing document removes exactly its
\* row: the id is no longer among the stored ids, count() is one less and
\* every other row is as it was; and every later docs() or find() returns
\* only ids of stored rows, none of them an id erased and not stored again,
\* while count() is the number of stored rows.
C16_EraseRemoves ==
    [][ /\ (nops' = nops + 1 /\ last'.op = "erase" /\ last'.ok /\ last'.found)
              => /\ last'.id \notin IdsOf(table')
                 /\ table' = table \ {RowOf(table, last'.id)}
                 /\ Count(table') = Count(table \ RowsWhere(table, last'.id))
                 /\ Cardinality(table') = Cardinality(table) - 1
                 /\ \A id \in IdsOf(table) \ {last'.id} :
                        RowsWhere(table', id) = RowsWhere(table, id)
        /\ (nops' = nops + 1 /\ last'.op \in {"docs", "find"} /\ last'.ok)
              => /\ DOMAIN last'.out.val.o \subseteq IdsOf(table')
                 /\ DOMAIN last'.out.val.o \cap erased' = {}
                 /\ last'.op = "docs" => DOMAIN last'.out.val.o = IdsOf(table')
        /\ (nops' = nops + 1 /\ last'.op = "count_all")
              => last'.out = Returned(Count(table')) ]_vars

\* Reached: x and y created, x erased, and docs() then returns y alone.
C16_Witness ==
    /\ last.op = "docs" /\ last.ok
    /\ "x" \in erased
    /\ DOMAIN last.out.val.o = {"y"}
    /\ Cardinality(table) = 1

\* C27: with two handles on the same id, one returned by create and one by
\* doc(id), after any interleaving of writes through them body() on either
\* handle returns the body stored for the id at that moment.
C27_SharedIdBodyCurrent ==
    (/\ last.op = "body" /\ last.ok
     /\ Len(docs) = 2 /\ docs[1].doc_id = docs[2].doc_id
     /\ erased = {} /\ RowsWhere(table, last.id) # {})
        => last.out.val = RowOf(table, last.id)

\* C30: after a successful set, insert, replace or patch on a document
\* whose row exists, with any path or fragment (docid included), the row is
\* stored under the handle's id, and every row of the collection has a
\* non-null docid that no other row has.
C30_RowStaysUnderId ==
    [][ (nops' = nops + 1 /\ last'.op \in {"set", "insert", "replace", "patch"}
           /\ last'.ok /\ last'.found)
          => /\ docs'[last'.h].doc_id = last'.id
             /\ RowsWhere(table', last'.id) # {}
             /\ \A b \in table' : Docid(b) # SqlNull
             /\ \A b1, b2 \in table' : Docid(b1) = Docid(b2) => b1 = b2 ]_vars

(***************************************************************************)
(* Claims about indexes, stated over SpecIndex.                            *)
(***************************************************************************)
\* Two rows of tbl with equal non-null values on every column of idx.
Duplicated(tbl, cols, idx) ==
    \E b1, b2 \in tbl :
        /\ b1 # b2
        /\ \A q \in DOMAIN idx.cols :
              LET v1 == JsonLookup(b1, cols[idx.cols[q]])
                  v2 == JsonLookup(b2, cols[idx.cols[q]])
              IN  v1.k \notin {"not_found", "null"} /\ v1 = v2

UniqueIndexes == {idx \in indexes : idx.unique}

\* The table a set(p, val) through the handle of id would leave.
AfterSet(tbl, id, p, val) ==
    (tbl \ {RowOf(tbl, id)}) \cup {JsonFunc("json_set", RowOf(tbl, id), p, val)}

\* C17: while a unique index over (c1..cn) exists no two stored documents
\* have equal non-null values on all of its columns; a set that would
\* introduce such a pair throws and leaves the stored bodies as they were,
\* and a set that introduces none succeeds and stores its body.
C17_UniqueEnforced ==
    [][ /\ \A idx \in UniqueIndexes : ~Duplicated(table, columns, idx)
        /\ \A idx \in {i \in indexes' : i.unique} :
              ~Duplicated(table', columns', idx)
        /\ (nops' = nops + 1 /\ last'.op = "set" /\ last'.found
              /\ last'.p \in IndexPaths)
              => LET would == AfterSet(table, last'.id, last'.p, last'.arg)
                 IN  IF \E idx \in UniqueIndexes : Duplicated(would, columns, idx)
                     THEN /\ ~last'.ok
                          /\ last'.out = Threw("Failed to update document")
                          /\ table' = table
                     ELSE /\ last'.ok
                          /\ table' = would ]_vars

\* Reached: with a unique index over two columns, a set that would give a
\* second document the same pair of values has thrown.
C17_Witness ==
    /\ last.op = "set" /\ ~last.ok /\ last.found
    /\ \E idx \in UniqueIndexes :
          /\ Len(idx.cols) = 2
          /\ Duplicated(AfterSet(table, last.id, last.p, last.arg), columns, idx)

IndexCalls == {"index", "index_columns"}

\* C18: a uniqueness violation surfaces as the failure of the set that
\* introduces the duplicate, and never when the index is created: an index
\* call with unique=true does not throw "Failed to create index", whatever
\* documents the collection holds.
C18_FailsAtMutationOnly ==
    [][ /\ (nops' = nops + 1 /\ last'.op = "set" /\ last'.found
              /\ last'.p \in IndexPaths
              /\ \E idx \in UniqueIndexes :
                    Duplicated(AfterSet(table, last'.id, last'.p, last'.arg),
                               columns, idx))
              => ~last'.ok
        /\ (nops' = nops + 1 /\ last'.op \in IndexCalls /\ last'.arg.k = "unique")
              => last'.out # Threw("Failed to create index") ]_vars

\* C19: db_collection::index(name, columns, unique) leaves no transaction
\* open, whether it returns or throws; and when adding a column or creating
\* the index fails, the projected columns and the indexes are those from
\* before the call.
C19_IndexColumnsAtomic ==
    [][ (nops' = nops + 1 /\ last'.op = "index_columns")
          => /\ in_transaction' = FALSE
             /\ ~last'.ok => (columns' = columns /\ indexes' = indexes)
             /\ last'.ok => /\ \A q \in DOMAIN last'.arg.o[2] :
                                  last'.arg.o[2][q][1] \in DOMAIN columns'
                            /\ \E idx \in indexes' : idx.name = last'.arg.o[1] ]_vars

\* Reached: the call added its first column, then the second ALTER TABLE
\* was refused, and the first column is not a column of the table.
C19_Witness ==
    /\ last.op = "index_columns"
    /\ last.out = Threw("Failed to alter table")
    /\ last.arg.o[2][1][1] \notin DOMAIN columns
    /\ ~in_transaction

\* C20: of two consecutive index(column_name, path, unique) calls with the
\* same arguments both succeed, the second changes nothing, and the table
\* then has the projected column and exactly one index over it.
C20_IndexIdempotent ==
    [][ (nops' = nops + 1 /\ last.op = "index" /\ last'.op = "index"
           /\ last'.arg = last.arg /\ last'.p = last.p)
          => /\ last.ok /\ last'.ok
             /\ columns' = columns /\ indexes' = indexes /\ table' = table
             /\ last'.arg.o[2][1][1] \in DOMAIN columns'
             /\ columns'[last'.arg.o[2][1][1]] = last'.p
             /\ Cardinality({idx \in indexes' :
                               idx.cols = <<last'.arg.o[2][1][1]>>}) = 1 ]_vars

\* The unique index over the one column the last index call named.
NamedUnique == Index(last.arg.o[1], <<last.arg.o[2][1][1]>>, TRUE)

\* C28: once index(column_name, path, unique=true) has returned, uniqueness
\* of the column is enforced, whatever index calls came before it: the
\* stored documents hold no duplicate on the column, and a set that would
\* introduce one throws and changes nothing.
C28_UniqueAfterPlain ==
    [][ (last.op = "index" /\ last.ok /\ last.arg.k = "unique")
          => /\ ~Duplicated(table, columns, NamedUnique)
             /\ (nops' = nops + 1 /\ last'.op = "set" /\ last'.found
                   /\ last'.p \in IndexPaths
                   /\ Duplicated(AfterSet(table, last'.id, last'.p, last'.arg),
                                 columns, NamedUnique))
                   => (~last'.ok /\ table' = table) ]_vars

\* C29: when the single-column index(column_name, path, unique) throws, the
\* projected columns and the indexes of the table are those from before
\* the call.
C29_IndexFailureLeavesSchema ==
    [][ (nops' = nops + 1 /\ last'.op = "index" /\ ~last'.ok)
          => (columns' = columns /\ indexes' = indexes) ]_vars

(***************************************************************************)
(* Claims about the query-expression engine, stated over SpecQuery.        *)
(***************************************************************************)
Range(seq) == {seq[q] : q \in DOMAIN seq}

\* The indices of the placeholders ?k that occur in a rendered text.
Placeholders(text) == {tok.k : tok \in {x \in Range(text) : x.t = "ph"}}

\* The value-carrying predicates of a tree: the index each renders and the
\* value its constructor was given.
RECURSIVE ValueLeaves(_)
ValueLeaves(e) ==
    IF e.kind = "logic_gate"
    THEN ValueLeaves(e.kids[1]) \cup ValueLeaves(e.kids[2])
    ELSE IF e.index_ = -1 THEN {}
         ELSE {[index_ |-> e.index_, arg |-> e.arg]}

\* C7: for every expression tree passed to find or count, each placeholder
\* ?k of the rendered text has an entry k in the binder that comes with it,
\* holding the value given to the predicate that rendered ?k, and the binder
\* has no other entry (a gate's binder is the union of what its two children
\* carried).
C7_PlaceholdersBound ==
    (qlast.op = "find" /\ ~pool[qlast.i].moved)
        => /\ Placeholders(qlast.text) = DOMAIN qlast.binder
           /\ \A leaf \in ValueLeaves(pool[qlast.i]) :
                 /\ leaf.index_ \in DOMAIN qlast.binder
                 /\ qlast.binder[leaf.index_] = leaf.arg

\* C8: a logical gate renders as "(" left " " connective " " right ")".
C8_GateParenthesised ==
    \A q \in Slots :
        (pool[q].kind = "logic_gate" /\ ~pool[q].moved)
            => to_query_string(pool[q]) =
                   <<Lit("(")>> \o to_query_string(pool[q].kids[1])
                       \o <<Lit(" "), Lit(pool[q].gate_), Lit(" ")>>
                       \o to_query_string(pool[q].kids[2]) \o <<Lit(")")>>

\* C9: composing two expressions with AND/OR changes neither operand: after
\* the gate is built each operand still renders the same text and still
\* exposes the same binder entries.
C9_ChildrenUnchanged ==
    [][ (Len(pool') = Len(pool) + 1 /\ qlast'.op \in {"AND", "OR"})
          => \A q \in {qlast'.i, qlast'.j} :
                /\ to_query_string(pool'[q]) = to_query_string(pool[q])
                /\ pool'[q].binder_ = pool[q].binder_ ]_vars

\* The IS [NOT] NULL rendering: no placeholder, the NULL keyword, and for a
\* JSON-rooted path the json_type(...) IS NOT NULL guard in front.
IsNullForm(e) ==
    LET text == to_query_string(e)
    IN  /\ Placeholders(text) = {}
        /\ text[Len(text)] = Lit(" NULL")
        /\ text[Len(text) - 1] \in {Lit("IS"), Lit("IS NOT")}
        /\ (Len(e.var_) > 0 /\ e.var_[1] = "$")
               => /\ text[1] = Lit("json_type(body, '")
                  /\ text[3] = Lit("') IS NOT NULL AND json_extract(body, '")

\* C10: a binary predicate carries no binder entry exactly when it is the
\* IS [NOT] NULL form and exactly one otherwise; eq and neq against a null
\* value, given as the null literal or as a db_value holding null, bind
\* nothing and render the IS [NOT] NULL form.
C10_NullNeverBound ==
    \A q \in Slots :
        (pool[q].kind = "binary_op" /\ ~pool[q].moved)
            => /\ Cardinality(DOMAIN pool[q].binder_)
                     = (IF IsNullForm(pool[q]) THEN 0 ELSE 1)
               /\ (pool[q].ctor \in {"eq", "neq"} /\ pool[q].arg \in {"null", "nullptr"})
                     => (pool[q].binder_ = EmptyBinder /\ IsNullForm(pool[q]))


\* The characters of a name, and the tokens of a text, as one string.
RECURSIVE Chars(_)
Chars(chars) == IF chars = <<>> THEN "" ELSE Head(chars) \o Chars(Tail(chars))

RECURSIVE Written_text(_)
Written_text(text) ==
    IF text = <<>> THEN ""
    ELSE LET tok == Head(text)
             one == IF tok.t = "lit" THEN tok.s
                    ELSE IF tok.t = "str" THEN Chars(tok.v)
                    ELSE "?" \o ToString(tok.k)
         IN  one \o Written_text(Tail(text))

\* json_extract(body, '<path>') for a path that starts with $, [<path>] for
\* any other string.
ColumnRefText(var) ==
    IF Len(var) > 0 /\ Head(var) = "$"
    THEN "json_extract(body, '" \o Chars(var) \o "')"
    ELSE "[" \o Chars(var) \o "]"

\* The predicates built from a non-null value that the caller still holds.
NonNullPredicates ==
    {q \in Slots : /\ pool[q].kind = "binary_op" /\ ~pool[q].moved
                   /\ pool[q].arg \notin {"null", "nullptr"}}

\* C22: a comparison predicate with a non-null value renders as
\* "(<column-ref> <op> ?<index>)", the column reference being
\* json_extract(body, '<path>') when the path starts with $ and [<path>]
\* for any other string, the empty one included, and <index> the key of the
\* one entry of the predicate's binder.
C22_ComparisonRendering ==
    \A q \in NonNullPredicates :
        /\ Cardinality(DOMAIN pool[q].binder_) = 1
        /\ \E k \in DOMAIN pool[q].binder_ :
              Written_text(to_query_string(pool[q]))
                  = "(" \o ColumnRefText(pool[q].var_) \o " "
                        \o Operators[pool[q].ctor] \o " ?" \o ToString(k) \o ")"

\* Reached: predicates on the empty string and on a JSON path, both with a
\* non-null value.
C22_Witness ==
    /\ \E q \in NonNullPredicates :
          /\ pool[q].var_ = EmptyString
          /\ Written_text(to_query_string(pool[q])) = "([] LIKE ?2)"
    /\ \E q \in NonNullPredicates :
          /\ Len(pool[q].var_) > 0
          /\ Head(pool[q].var_) = "$"

(***************************************************************************)
(* Claims about find, count and docs, stated over SpecFind.                *)
(***************************************************************************)
\* The ids a find returned.
Found == DOMAIN last.out.val.o

\* The ids of the rows whose body holds an explicit JSON null at p.
IdsWithNullAt(tbl, p) == {Docid(b) : b \in {r \in tbl : JsonLookup(r, p).k = "null"}}

\* C11: a find with the equality-to-null predicate on a JSON path returns
\* exactly the documents that hold an explicit null there (never one that
\* lacks the path), and get_type on a path returns null for an explicit
\* null and not_found for an absent path.
C11_NullVsMissing ==
    /\ (last.op = "find" /\ last.ok /\ last.arg.k = "eq"
           /\ last.arg.v \in {"null", "nullptr"})
          => Found = IdsWithNullAt(table, last.p)
    /\ (last.op = "get_type" /\ last.sit = "null") => last.out.val.v = "null"
    /\ (last.op = "get_type" /\ last.sit = "no_path") => last.out.val.v = "not_found"


(***************************************************************************)
(* Claims about the allocation of placeholder indices, stated over         *)
(* SpecCounter and SpecQuery.                                              *)
(***************************************************************************)
\* The value-carrying predicates of a tree, as objects.
RECURSIVE ValuePredicates(_)
ValuePredicates(e) ==
    IF e.kind = "logic_gate"
    THEN ValuePredicates(e.kids[1]) \cup ValuePredicates(e.kids[2])
    ELSE IF e.index_ = -1 THEN {} ELSE {e}

\* How far the counter went from c1 to c2 (through one wrap when c2 <= c1).
Distance(c1, c2) ==
    IF c2 > c1 THEN c2 - c1 ELSE (c2 - INT_MIN) + (INT_MAX - c1) + 1

\* The number of value-carrying predicates constructed on the thread of a
\* and b after a and before b.
Between(a, b) == Distance(a.made_at, b.made_at) - 1

\* Within every statement (a gate the caller holds), two value-carrying
\* predicates of one thread with fewer than window predicates constructed
\* between them have different indices.
DistinctWithin(window) ==
    \A q \in Slots :
        (pool[q].kind = "logic_gate" /\ ~pool[q].moved)
            => \A a, b \in ValuePredicates(pool[q]) :
                  (a.thread = b.thread /\ a.serial < b.serial
                     /\ Between(a, b) < window)
                      => a.index_ # b.index_

\* C12 as stated: two value-carrying predicates constructed on the same
\* thread and combined into one statement have different placeholder
\* indices, provided fewer than MAX_VAR_NUM value-carrying predicates were
\* constructed on that thread between them.
C12_AsStated == DistinctWithin(MAX_VAR_NUM)

\* C12 (amended): ... provided fewer than MAX_VAR_NUM - 1 value-carrying
\* predicates were constructed on that thread between them, that is, the
\* counter advanced by fewer than MAX_VAR_NUM from one to the other.
C12_SameThreadDistinct == DistinctWithin(MAX_VAR_NUM - 1)

\* Reached: a statement combining two predicates of one thread with exactly
\* MAX_VAR_NUM - 2 predicates constructed between them.
C12_Witness ==
    \E q \in Slots :
        /\ pool[q].kind = "logic_gate" /\ ~pool[q].moved
        /\ \E a, b \in ValuePredicates(pool[q]) :
              /\ a.thread = b.thread /\ a.serial < b.serial
              /\ Between(a, b) = MAX_VAR_NUM - 2
              /\ a.index_ # b.index_

\* C13: combining two sub-expressions built independently (also on
\* different threads) never collides: the gate's binder has as many entries
\* as the two operands' binders together, and every entry keeps its value.
C13_NoCollision ==
    [][ (Len(pool') = Len(pool) + 1 /\ qlast'.op \in {"AND", "OR"})
          => LET a == pool[qlast'.i].binder_
                 b == pool[qlast'.j].binder_
                 g == pool'[Len(pool')].binder_
             IN  /\ Cardinality(DOMAIN g)
                       = Cardinality(DOMAIN a) + Cardinality(DOMAIN b)
                 /\ \A k \in DOMAIN a : k \in DOMAIN g /\ g[k] = a[k]
                 /\ \A k \in DOMAIN b : k \in DOMAIN g /\ g[k] = b[k] ]_vars


\* C26: every value-carrying predicate has its placeholder index in
\* 1 .. MAX_VAR_NUM, whatever number of predicates the thread has
\* constructed, also after the thread's counter was incremented at INT_MAX.
C26_IndexInRange ==
    \A q \in Slots :
        \A leaf \in ValuePredicates(pool[q]) :
            leaf.index_ \in 1 .. MAX_VAR_NUM


\* The size of the list of refs a find or docs call returned, as count
\* returns a size.
SizeOf(call) == Scalar("std::size_t", ToString(Cardinality(DOMAIN call.out.val.o)))

Calls == last.arg.o

Times(kind) == Cardinality({q \in DOMAIN Calls : Calls[q] = kind})

\* C24: every statement an operation prepared is finalized exactly once by
\* the time the operation returns or throws, on every exit (a preparation
\* that fails acquires nothing and finalizes nothing), and nothing is done
\* with a statement after it was finalized; this holds as well when the
\* statement object is returned from get_value_stmt_impl to get.
C24_FinalizedOnce ==
    (last.arg.k = "calls")
        => /\ Times("finalize") = Times("prepare")
           /\ Times("prepare") <= 1
           /\ \A q \in DOMAIN Calls :
                 Calls[q] = "finalize" => q = Len(Calls)

\* C25: find, docs and collections throw whenever the step that ends the
\* enumeration gives a code other than SQLITE_DONE (SQLITE_ROW continues
\* it); a list they return is the complete one.
C25_EnumerationFailureRaised ==
    (last.op \in {"find", "docs", "collections"} /\ last.arg.k = "step")
        => /\ last.arg.v # SQLITE_DONE => ~last.ok
           /\ last.ok =>
                 DOMAIN last.out.val.o =
                    (CASE last.op = "docs" -> IdsOf(table)
                       [] last.op = "find" ->
                             {Docid(b) : b \in {r \in table :
                                 JsonLookup(r, <<"a">>).k \notin {"not_found", "null"}}}
                       [] OTHER -> Collections)

\* The value a document of the collection holds in the field sorted by.
OrderKey(id) ==
    ColumnRef(columns, CHOOSE b \in table : Docid(b) = id, last.arg.o.order.field_)

\* The ids of the documents the expression of the last find matches:
\* $.a > 1 holds of the greater integers and of every text, docid IS NOT
\* NULL of every document.
OrderMatches ==
    IF last.arg.k = "gt"
    THEN {Docid(b) : b \in {r \in table :
             LET val == JsonExtract(r, <<"a">>)
             IN  \/ val.k = "text"
                 \/ val.k = "integer" /\ Num(val.v) > Num(last.arg.v)}}
    ELSE IdsOf(table)

\* id1 comes strictly before id2 in the direction asked for.
OrderedBefore(id1, id2) ==
    IF last.arg.o.order.ascending_
    THEN SortsBefore(OrderKey(id1), OrderKey(id2))
    ELSE SortsBefore(OrderKey(id2), OrderKey(id1))

=============================================================================
